---------------------------- MODULE Spec2Model ----------------------------
(***************************************************************************)
(* Psychometric Duel: the game engine of pythonport.py (state, legal-action *)
(* enumeration, transition function, terminal detection) and the static    *)
(* action space of train_alphazero.py.                                     *)
(*                                                                         *)
(* Representation.                                                         *)
(*  - A card is the string of its id: an item card is its constructId (all *)
(*    other fields of makeItemCard are functions of it), a spell card its  *)
(*    spell id.                                                            *)
(*  - Players are 1 and 2; an empty slot (Python None) is the record None; *)
(*    winner None is NoWinner.                                             *)
(*  - Python floats are fixed-point integers in millionths ("micro"):      *)
(*    0.65 is 650000.  Reliabilities and the square root of their product  *)
(*    are computed to four decimals.  round() is Python's round-half-even. *)
(*  - An action is the record of its descriptor's keys.                    *)
(***************************************************************************)
EXTENDS Integers, Sequences, FiniteSets, TLC

VARIABLES
    state,      \* the GameState returned by the last call of next_state
    action,     \* the action descriptor passed to the last call
    before,     \* the value of the state passed to the last call, at the call
    input,      \* the object passed to the last call, as it is after the call
    origin,     \* the value of the first state, at construction
    originNow,  \* the object of the first state, as it is now
    raised,     \* whether the last call raised an exception
    turns,      \* number of calls counted against the exploration bound
    tree,       \* MCTS.run: the search tree, a function from paths of action ids to nodes
    simulations,\* MCTS.simulations of the run
    simsDone,   \* MCTS.run: passes of the simulation loop completed
    training,   \* MCTS.run: its training argument
    policy,     \* MCTS.run: the policy returned, None before
    searchPc,   \* MCTS.run: "idle", "searching" or "returned"
    replay,     \* main: the replay deque, oldest sample first
    replaySize, \* main: args.replay_size, the maxlen of the deque
    appended,   \* the episodes passed to replay.extend so far, in order
    gating,     \* evaluate_candidate and the gating step of main: their locals, None before
    episode     \* self_play_episode or play_match: its locals, None before

searchVars == <<tree, simulations, simsDone, training, policy, searchPc>>

trainerVars == <<replay, replaySize, appended, gating, episode>>

vars == <<state, action, before, input, origin, originNow, raised, turns, searchVars, trainerVars>>

-----------------------------------------------------------------------------
(* Bounds of the exploration *)

MaxTurns == 2

-----------------------------------------------------------------------------
(* pythonport.py constants *)

MAX_HAND_SIZE == 12
STARTING_HAND_SIZE == 12
EXPERIENCE_MISS_THRESHOLD == 4
EXPERIENCE_DRAW_COUNT == 3
StartingLp == 8000
NoWinner == 0

None == [none |-> TRUE]

\* "target_slot": None of an attack on lp
NoSlot == -1

\* avgR in micro-units
CONSTRUCTS ==
    [ cog_ability |-> [type |-> "predictor", avgR |-> 650000],
      conscient   |-> [type |-> "predictor", avgR |-> 450000],
      struct_int  |-> [type |-> "predictor", avgR |-> 550000],
      work_sample |-> [type |-> "predictor", avgR |-> 500000],
      job_perf    |-> [type |-> "outcome",   avgR |-> 520000],
      turnover    |-> [type |-> "outcome",   avgR |-> 400000],
      job_sat     |-> [type |-> "outcome",   avgR |-> 480000],
      ocb         |-> [type |-> "outcome",   avgR |-> 440000] ]

TRUE_VALIDITY ==
    [ cog_ability |-> [job_perf |-> 510000, turnover |-> 200000, job_sat |-> 150000, ocb |-> 120000],
      conscient   |-> [job_perf |-> 310000, turnover |-> 260000, job_sat |-> 250000, ocb |-> 300000],
      struct_int  |-> [job_perf |-> 510000, turnover |-> 220000, job_sat |-> 180000, ocb |-> 150000],
      work_sample |-> [job_perf |-> 540000, turnover |-> 150000, job_sat |-> 120000, ocb |-> 100000] ]

ADVERSE_IMPACT_BWD ==
    [ cog_ability |-> [job_perf |-> 950000, turnover |-> 600000, job_sat |-> 580000, ocb |-> 550000],
      conscient   |-> [job_perf |-> 200000, turnover |-> 50000,  job_sat |-> 50000,  ocb |-> 50000],
      struct_int  |-> [job_perf |-> 350000, turnover |-> 220000, job_sat |-> 220000, ocb |-> 220000],
      work_sample |-> [job_perf |-> 550000, turnover |-> 400000, job_sat |-> 400000, ocb |-> 400000] ]

\* COUNTS in its insertion order, which is the order of the starting deck
COUNTS ==
    << <<"cog_ability", 4>>, <<"conscient", 4>>, <<"struct_int", 4>>, <<"work_sample", 4>>,
       <<"job_perf", 4>>, <<"turnover", 4>>, <<"job_sat", 4>>, <<"ocb", 4>>,
       <<"sample_size", 3>>, <<"job_relevance", 4>>, <<"imputation", 1>>, <<"missing_data", 1>>,
       <<"range_restrict", 2>>, <<"item_leakage", 2>>, <<"correction", 2>>, <<"p_hacking", 1>>,
       <<"practice_effect", 2>>, <<"bootstrapping", 2>>, <<"item_analysis", 2>>,
       <<"construct_drift", 1>>, <<"criterion_contam", 1>> >>

TARGETING_MONSTER_SPELLS ==
    { "sample_size", "job_relevance", "imputation", "p_hacking", "practice_effect",
      "range_restrict", "item_leakage", "correction", "bootstrapping", "criterion_contam" }

TARGETING_CONSTRUCT_SPELLS == { "missing_data", "construct_drift", "item_analysis" }

Slots == 0 .. 2

\* card.get("isItem")
IsItem(card) == card \in DOMAIN CONSTRUCTS

-----------------------------------------------------------------------------
(* Arithmetic helpers *)

Max(a, b) == IF a >= b THEN a ELSE b
Min(a, b) == IF a <= b THEN a ELSE b
Abs(a) == IF a < 0 THEN -a ELSE a

clamp(v, lo, hi) == Max(lo, Min(hi, v))

\* Python round(a / b) for a >= 0, b > 0: nearest integer, ties to even
RoundDiv(a, b) ==
    LET q == a \div b
        r == a % b
    IN  IF 2 * r < b THEN q
        ELSE IF 2 * r > b THEN q + 1
        ELSE IF q % 2 = 0 THEN q ELSE q + 1

RECURSIVE SqrtSearch(_, _, _)
SqrtSearch(x, lo, hi) ==
    IF lo >= hi THEN lo
    ELSE LET mid == (lo + hi + 1) \div 2
             fits == mid * mid <= x
         IN  SqrtSearch(x, IF fits THEN mid ELSE lo, IF fits THEN hi ELSE mid - 1)

\* (a * b) ** 0.5 of two micro-unit values in [0, 1], to four decimals
SqrtOfProduct(a, b) == 100 * SqrtSearch((a \div 100) * (b \div 100), 0, 10000)

\* spearmanBrown(k, avgR), to four decimals
spearmanBrown(k, avgR) ==
    100 * ((k * (avgR \div 10000) * 10000) \div (100 + (k - 1) * (avgR \div 10000)))

adverseImpactStarsFromBwd(rawBwd) ==
    LET d == Abs(rawBwd)
    IN  IF d <= 100000 THEN 5
        ELSE IF d <= 250000 THEN 4
        ELSE IF d <= 450000 THEN 3
        ELSE IF d <= 650000 THEN 2
        ELSE 1

getPairAdverseImpact(pred_id, out_id) ==
    LET bwd == IF pred_id \in DOMAIN ADVERSE_IMPACT_BWD /\ out_id \in DOMAIN ADVERSE_IMPACT_BWD[pred_id]
               THEN ADVERSE_IMPACT_BWD[pred_id][out_id] ELSE 300000
        stars == adverseImpactStarsFromBwd(bwd)
    IN  [bwd |-> bwd, stars |-> stars, requiresJobRelevance |-> stars <= 3]

alphaFromStack(stack) ==
    IF stack = None \/ Len(stack.cards) = 0 THEN 0
    ELSE spearmanBrown(Len(stack.cards), CONSTRUCTS[stack.cards[1]].avgR)

approxPowerFromROBSandN(r_obs, n) ==
    LET r == clamp(Abs(r_obs), 0, 999999)
        m == Max(4, n)
    IN  clamp(50000 + (((94 * r) \div 100) * (m - 3)) \div m, 50000, 990000)

-----------------------------------------------------------------------------
(* Monsters *)

\* a variant that rounds every half up
RECURSIVE Halved_HalfUp(_, _)
Halved_HalfUp(atk, times) == IF times = 0 THEN atk ELSE Halved_HalfUp((atk + 1) \div 2, times - 1)

\* lines 129-131: next_atk = round(next_atk / 2), times times
RECURSIVE Halved(_, _)
Halved(atk, times) == IF times = 0 THEN atk ELSE Halved(RoundDiv(atk, 2), times - 1)

\* a variant that halves the atk the monster has rather than its base
refreshMonsterStats_FromAtk(m) ==
    IF m.isMeta
    THEN [m EXCEPT !.power = clamp(m.power, 700000, 990000)]
    ELSE
    LET effective_multiplier == IF m.itemLeakageApplied THEN 0 ELSE Max(0, m.validityMultiplier)
        root == SqrtOfProduct(Max(50000, m.predAlpha), Max(50000, m.outAlpha))
        rObs == ((m.rTrue \div 10000) * (root \div 100)) * effective_multiplier
        next_atk == Halved(IF m.rangeRestrictionStacks > 0 THEN m.atk ELSE RoundDiv(Abs(rObs), 100),
                           Max(0, m.rangeRestrictionStacks))
    IN  [m EXCEPT !.rObs = rObs,
                  !.baseAtk = RoundDiv(Abs(rObs), 100),
                  !.atk = next_atk,
                  !.power = approxPowerFromROBSandN(Abs(next_atk) * 100, m.n)]

refreshMonsterStats(m) ==
    IF m.isMeta
    THEN [m EXCEPT !.power = clamp(m.power, 700000, 990000)]
    ELSE
    LET validity_multiplier == Max(0, m.validityMultiplier)
        effective_multiplier == IF m.itemLeakageApplied THEN 0 ELSE validity_multiplier
        root == SqrtOfProduct(Max(50000, m.predAlpha), Max(50000, m.outAlpha))
        \* rTrue * root, in micro-units: (rTrue / 10^4) * (root / 10^2)
        rObs == ((m.rTrue \div 10000) * (root \div 100)) * effective_multiplier
        baseAtk == RoundDiv(Abs(rObs), 100)
        correction_base == RoundDiv(Abs(m.rTrue) * effective_multiplier, 100)
        effective_atk_base == IF m.correctionApplied THEN correction_base ELSE baseAtk
        next_atk == Halved(effective_atk_base, Max(0, m.rangeRestrictionStacks))
    IN  [m EXCEPT !.rObs = rObs,
                  !.baseAtk = baseAtk,
                  !.atk = next_atk,
                  !.power = approxPowerFromROBSandN(Abs(next_atk) * 100, m.n)]

buildMonster(pred_stack, out_stack) ==
    LET rho == IF pred_stack.constructId \in DOMAIN TRUE_VALIDITY
                  /\ out_stack.constructId \in DOMAIN TRUE_VALIDITY[pred_stack.constructId]
               THEN TRUE_VALIDITY[pred_stack.constructId][out_stack.constructId] ELSE 100000
        ai == getPairAdverseImpact(pred_stack.constructId, out_stack.constructId)
    IN  refreshMonsterStats(
          [ predId |-> pred_stack.constructId,
            outId |-> out_stack.constructId,
            predAlpha |-> alphaFromStack(pred_stack),
            outAlpha |-> alphaFromStack(out_stack),
            rTrue |-> rho,
            adverseImpact |-> ai.bwd,
            adverseStars |-> ai.stars,
            requiresJobRelevance |-> ai.requiresJobRelevance,
            rObs |-> 0,
            baseAtk |-> 0,
            atk |-> 0,
            baseN |-> 50,
            n |-> 50,
            power |-> 100000,
            attacksMade |-> 0,
            maxAttacks |-> 1,
            summoningSick |-> TRUE,
            hasJobRelevance |-> FALSE,
            hasImputation |-> FALSE,
            hasPHacking |-> FALSE,
            hasPracticeEffect |-> FALSE,
            itemLeakageApplied |-> FALSE,
            correctionApplied |-> FALSE,
            rangeRestrictionStacks |-> 0,
            validityMultiplier |-> 1,
            isMeta |-> FALSE ])

RECURSIVE SumOver(_, _)
SumOver(f, i) == IF i = 0 THEN 0 ELSE f[i] + SumOver(f, i - 1)

\* monsters: the non-empty sequence of the source monsters
buildMetaMonster(monsters) ==
    LET mean_r == SumOver([i \in 1 .. Len(monsters) |-> Abs(monsters[i].rObs)], Len(monsters))
                    \div Len(monsters)
        meta_r_true == clamp((mean_r * 135) \div 100, 350000, 950000)
        combined_n == SumOver([i \in 1 .. Len(monsters) |-> monsters[i].baseN], Len(monsters))
    IN  [ predId |-> "META",
          outId |-> "META",
          predAlpha |-> 990000,
          outAlpha |-> 990000,
          rTrue |-> meta_r_true,
          adverseImpact |-> 0,
          adverseStars |-> 5,
          requiresJobRelevance |-> FALSE,
          rObs |-> meta_r_true,
          baseAtk |-> RoundDiv(Abs(meta_r_true), 100),
          atk |-> RoundDiv(Abs(meta_r_true), 100),
          baseN |-> combined_n,
          n |-> combined_n,
          power |-> clamp(900000 + combined_n * 1000, 900000, 990000),
          attacksMade |-> 0,
          maxAttacks |-> 1,
          summoningSick |-> FALSE,
          hasJobRelevance |-> FALSE,
          hasImputation |-> FALSE,
          hasPHacking |-> FALSE,
          hasPracticeEffect |-> FALSE,
          itemLeakageApplied |-> FALSE,
          correctionApplied |-> FALSE,
          rangeRestrictionStacks |-> 0,
          validityMultiplier |-> 1,
          isMeta |-> TRUE ]

\* a variant that asks for three monsters only
localCanMeta_AnyThree(player) ==
    LET m == player.monsters
    IN  m[1] # None /\ m[2] # None /\ m[3] # None

\* player.monsters is a sequence indexed 1..3; slot s of the code is index s + 1
localCanMeta(player) ==
    LET m == player.monsters
    IN  IF ~(m[1] # None /\ m[2] # None /\ m[3] # None) THEN FALSE
        ELSE LET same_pred == \A i \in 1 .. 3 : m[i].predId = m[1].predId /\ m[i].predId # "META"
                 same_out == \A i \in 1 .. 3 : m[i].outId = m[1].outId /\ m[i].outId # "META"
             IN  same_pred \/ same_out

\* a variant that does not count the attacks already made
canMonsterAttack_Unlimited(monster) ==
    IF monster = None \/ monster.summoningSick
    THEN FALSE
    ELSE IF monster.requiresJobRelevance /\ ~monster.hasJobRelevance THEN FALSE
    ELSE TRUE

canMonsterAttack(monster) ==
    IF monster = None \/ monster.summoningSick \/ monster.attacksMade >= monster.maxAttacks
    THEN FALSE
    ELSE IF monster.requiresJobRelevance /\ ~monster.hasJobRelevance THEN FALSE
    ELSE TRUE

-----------------------------------------------------------------------------
(* Decks, hands, slots *)

\* the list of n copies of x
Repeat(x, n) == [i \in 1 .. n |-> x]

RECURSIVE Flatten(_)
Flatten(ss) == IF Len(ss) = 0 THEN <<>> ELSE Head(ss) \o Flatten(Tail(ss))

buildStartingDeck == Flatten([i \in 1 .. Len(COUNTS) |-> Repeat(COUNTS[i][1], COUNTS[i][2])])

\* list.pop(i) for a 0-based index i within range: the list without that element
Pop(list, i) == SubSeq(list, 1, i) \o SubSeq(list, i + 2, Len(list))

RECURSIVE drawCards(_, _, _)
drawCards(player, n, allowOverflow) ==
    IF n = 0 THEN player
    ELSE IF (~allowOverflow) /\ Len(player.hand) >= MAX_HAND_SIZE THEN player
    ELSE drawCards(IF Len(player.deck) > 0
                   THEN [player EXCEPT !.hand = Append(player.hand, player.deck[Len(player.deck)]),
                                       !.deck = SubSeq(player.deck, 1, Len(player.deck) - 1)]
                   ELSE player,
                   n - 1, allowOverflow)

\* a variant that asks for no discard
enforceHandLimit_None(player) ==
    [player EXCEPT !.pendingDiscard = 0]

\* a variant that tolerates one card above the limit
enforceHandLimit_OneOver(player) ==
    [player EXCEPT !.pendingDiscard = Max(0, Len(player.hand) - MAX_HAND_SIZE - 1)]

enforceHandLimit(player) ==
    [player EXCEPT !.pendingDiscard = Max(0, Len(player.hand) - MAX_HAND_SIZE)]

\* a variant that takes the last empty slot
firstEmptySlot_Last(arr) ==
    IF \E i \in 1 .. Len(arr) : arr[i] = None
    THEN (CHOOSE i \in 1 .. Len(arr) : arr[i] = None /\ \A j \in i + 1 .. Len(arr) : arr[j] # None) - 1
    ELSE -1

\* index (0-based) of the first empty slot of arr, or -1
firstEmptySlot(arr) ==
    IF \E i \in 1 .. Len(arr) : arr[i] = None
    THEN (CHOOSE i \in 1 .. Len(arr) : arr[i] = None /\ \A j \in 1 .. i - 1 : arr[j] # None) - 1
    ELSE -1

makeConstructStackFromCard(card) ==
    [type |-> CONSTRUCTS[card].type, constructId |-> card, cards |-> <<card>>]

-----------------------------------------------------------------------------
(* initial_state *)

NewPlayer ==
    [ lp |-> StartingLp, deck |-> buildStartingDeck, hand |-> <<>>,
      constructs |-> <<None, None, None>>, monsters |-> <<None, None, None>>,
      summoned |-> FALSE, experienceTokens |-> 0, pendingDiscard |-> 0 ]

initial_state ==
    [ status |-> "active",
      currentPlayer |-> 1,
      winner |-> NoWinner,
      mulligan |-> [phase |-> FALSE, done |-> <<TRUE, TRUE>>],
      players |-> << drawCards(NewPlayer, STARTING_HAND_SIZE, FALSE),
                     drawCards(NewPlayer, STARTING_HAND_SIZE, FALSE) >> ]

Other(pid) == IF pid = 1 THEN 2 ELSE 1

-----------------------------------------------------------------------------
(* legal_actions *)

Range(f) == { f[i] : i \in DOMAIN f }

\* the indices 0 .. n - 1 as a sequence: range(n)
RangeSeq(n) == [i \in 1 .. n |-> i - 1]

DiscardMoves(p) ==
    [i \in 1 .. Len(p.hand) |-> [type |-> "discard_card", hand_index |-> i - 1]]

\* a variant whose hand_index is one past the card
PlaceMoves_NextIndex(p, h) ==
    LET card == p.hand[h + 1]
        Open(slot) ==
            LET stack == p.constructs[slot + 1]
            IN  ~(stack # None /\ stack.constructId # card)
                /\ ~(stack # None /\ Len(stack.cards) >= 3)
        slots == SelectSeq(RangeSeq(3), Open)
    IN  [i \in 1 .. Len(slots) |-> [type |-> "place_card", hand_index |-> h + 1, slot |-> slots[i]]]

\* a variant that offers a stack of three cards as well
PlaceMoves_AnyHeight(p, h) ==
    LET card == p.hand[h + 1]
        Open(slot) ==
            LET stack == p.constructs[slot + 1]
            IN  ~(stack # None /\ stack.constructId # card)
        slots == SelectSeq(RangeSeq(3), Open)
    IN  [i \in 1 .. Len(slots) |-> [type |-> "place_card", hand_index |-> h, slot |-> slots[i]]]

PlaceMoves(p, h) ==
    LET card == p.hand[h + 1]
        Open(slot) ==
            LET stack == p.constructs[slot + 1]
            IN  ~(stack # None /\ stack.constructId # card)
                /\ ~(stack # None /\ Len(stack.cards) >= 3)
        slots == SelectSeq(RangeSeq(3), Open)
    IN  [i \in 1 .. Len(slots) |-> [type |-> "place_card", hand_index |-> h, slot |-> slots[i]]]

\* the play_spell moves of hand card h on the occupied slots of one zone of both players
TargetMoves(s, h, target_type) ==
    LET pid == s.currentPlayer
        Arr(owner) ==
            LET pl == s.players[IF owner = "me" THEN pid ELSE Other(pid)]
            IN  IF target_type = "monster" THEN pl.monsters ELSE pl.constructs
        Of(owner) ==
            LET arr == Arr(owner)
                Occupied(ts) == arr[ts + 1] # None
                hit == SelectSeq(RangeSeq(3), Occupied)
            IN  [i \in 1 .. Len(hit) |->
                    [type |-> "play_spell", hand_index |-> h, target_owner |-> owner,
                     target_type |-> target_type, target_slot |-> hit[i]]]
    IN  Of("me") \o Of("opp")

SpellMoves(s, h) ==
    LET cid == s.players[s.currentPlayer].hand[h + 1]
    IN  (IF cid \in TARGETING_MONSTER_SPELLS THEN TargetMoves(s, h, "monster") ELSE <<>>)
        \o (IF cid \in TARGETING_CONSTRUCT_SPELLS THEN TargetMoves(s, h, "construct") ELSE <<>>)

HandMoves(s) ==
    LET p == s.players[s.currentPlayer]
    IN  Flatten([i \in 1 .. Len(p.hand) |->
                    IF IsItem(p.hand[i]) THEN PlaceMoves(p, i - 1) ELSE SpellMoves(s, i - 1)])

ExperienceMoves(p) ==
    IF p.experienceTokens >= EXPERIENCE_MISS_THRESHOLD /\ Len(p.deck) > 0
    THEN << [type |-> "experience_draw"] >>
    ELSE <<>>

\* a variant that does not look at the summoned flag
SummonMoves_Unlimited(p) ==
    LET open_slot == firstEmptySlot(p.monsters)
        Pair(pred_slot, out_slot) ==
            IF open_slot # -1
            THEN << [type |-> "summon", pred_slot |-> pred_slot, out_slot |-> out_slot] >>
            ELSE LET Full(r) == p.monsters[r + 1] # None
                     rs == SelectSeq(RangeSeq(3), Full)
                 IN  [i \in 1 .. Len(rs) |->
                        [type |-> "summon", pred_slot |-> pred_slot, out_slot |-> out_slot,
                         replace_monster_slot |-> rs[i]]]
    IN  Flatten([i \in 1 .. 9 |-> Pair((i - 1) \div 3, (i - 1) % 3)])

SummonMoves(p) ==
    IF p.summoned THEN <<>>
    ELSE
    LET open_slot == firstEmptySlot(p.monsters)
        Pair(pred_slot, out_slot) ==
            IF open_slot # -1
            THEN << [type |-> "summon", pred_slot |-> pred_slot, out_slot |-> out_slot] >>
            ELSE LET Full(r) == p.monsters[r + 1] # None
                     rs == SelectSeq(RangeSeq(3), Full)
                 IN  [i \in 1 .. Len(rs) |->
                        [type |-> "summon", pred_slot |-> pred_slot, out_slot |-> out_slot,
                         replace_monster_slot |-> rs[i]]]
    IN  Flatten([i \in 1 .. 9 |-> Pair((i - 1) \div 3, (i - 1) % 3)])

MetaMoves(p) == IF localCanMeta(p) THEN << [type |-> "meta"] >> ELSE <<>>

AttackMoves(s) ==
    LET p == s.players[s.currentPlayer]
        o == s.players[Other(s.currentPlayer)]
        opponent_has_monsters == \E t \in 1 .. 3 : o.monsters[t] # None
        Defended(t) == o.monsters[t + 1] # None
        ds == SelectSeq(RangeSeq(3), Defended)
        Of(a) ==
            IF ~canMonsterAttack(p.monsters[a + 1]) THEN <<>>
            ELSE (IF ~opponent_has_monsters
                  THEN << [type |-> "attack", attacker_slot |-> a, target_type |-> "lp", target_slot |-> NoSlot] >>
                  ELSE <<>>)
                 \o [i \in 1 .. Len(ds) |->
                        [type |-> "attack", attacker_slot |-> a, target_type |-> "monster", target_slot |-> ds[i]]]
    IN  Flatten([i \in 1 .. 3 |-> Of(i - 1)])

legal_actions(s) ==
    IF s.status = "finished" THEN <<>>
    ELSE
    LET p == s.players[s.currentPlayer]
    IN  IF p.pendingDiscard > 0 THEN DiscardMoves(p)
        ELSE HandMoves(s) \o ExperienceMoves(p) \o SummonMoves(p) \o MetaMoves(p)
             \o AttackMoves(s) \o << [type |-> "end_turn"] >>

-----------------------------------------------------------------------------
(* next_state: one operator per branch, each from the cloned state s to the *)
(* state before _mark_game_over                                            *)

\* s with player pid replaced by pl
WithPlayer(s, pid, pl) == [s EXCEPT !.players[pid] = pl]

ApplyPlaceCard(s, a) ==
    LET pid == s.currentPlayer
        me == s.players[pid]
        card == me.hand[a.hand_index + 1]
        slot == a.slot
    IN  IF ~IsItem(card) THEN s
        ELSE WithPlayer(s, pid,
               [me EXCEPT !.hand = Pop(me.hand, a.hand_index),
                          !.constructs[slot + 1] =
                              IF me.constructs[slot + 1] = None
                              THEN makeConstructStackFromCard(card)
                              ELSE [me.constructs[slot + 1] EXCEPT !.cards = Append(@, card)]])

\* a variant that leaves pendingDiscard as it was
ApplyDiscardCard_KeepPending(s, a) ==
    LET pid == s.currentPlayer
        me == s.players[pid]
    IN  IF 0 <= a.hand_index /\ a.hand_index < Len(me.hand)
        THEN WithPlayer(s, pid, [me EXCEPT !.hand = Pop(me.hand, a.hand_index)])
        ELSE s

ApplyDiscardCard(s, a) ==
    LET pid == s.currentPlayer
        me == s.players[pid]
    IN  IF 0 <= a.hand_index /\ a.hand_index < Len(me.hand)
        THEN WithPlayer(s, pid,
               [me EXCEPT !.hand = Pop(me.hand, a.hand_index),
                          !.pendingDiscard = Max(0, me.pendingDiscard - 1)])
        ELSE s

ApplyExperienceDraw(s, a) ==
    LET pid == s.currentPlayer
        me == s.players[pid]
        spent == [me EXCEPT !.experienceTokens = @ - EXPERIENCE_MISS_THRESHOLD]
    IN  WithPlayer(s, pid, enforceHandLimit(drawCards(spent, EXPERIENCE_DRAW_COUNT, TRUE)))

\* a variant whose rejected summon still uses up the turn's summon
ApplySummon_SpendsSummon(s, a) ==
    LET pid == s.currentPlayer
        me == s.players[pid]
        pred == me.constructs[a.pred_slot + 1]
        out == me.constructs[a.out_slot + 1]
    IN  IF pred # None /\ out # None /\ pred.type = "predictor" /\ out.type = "outcome"
           /\ a.pred_slot # a.out_slot
        THEN LET monster == buildMonster(pred, out)
                 open == firstEmptySlot(me.monsters)
                 mslot == IF open = -1
                          THEN (IF "replace_monster_slot" \in DOMAIN a THEN a.replace_monster_slot ELSE 0)
                          ELSE open
             IN  WithPlayer(s, pid,
                   [me EXCEPT !.constructs[a.pred_slot + 1] = None,
                              !.constructs[a.out_slot + 1] = None,
                              !.monsters[mslot + 1] = monster,
                              !.summoned = TRUE])
        ELSE WithPlayer(s, pid, [me EXCEPT !.summoned = TRUE])

ApplySummon(s, a) ==
    LET pid == s.currentPlayer
        me == s.players[pid]
        pred == me.constructs[a.pred_slot + 1]
        out == me.constructs[a.out_slot + 1]
    IN  IF pred # None /\ out # None /\ pred.type = "predictor" /\ out.type = "outcome"
           /\ a.pred_slot # a.out_slot
        THEN LET monster == buildMonster(pred, out)
                 open == firstEmptySlot(me.monsters)
                 mslot == IF open = -1
                          THEN (IF "replace_monster_slot" \in DOMAIN a THEN a.replace_monster_slot ELSE 0)
                          ELSE open
             IN  WithPlayer(s, pid,
                   [me EXCEPT !.constructs[a.pred_slot + 1] = None,
                              !.constructs[a.out_slot + 1] = None,
                              !.monsters[mslot + 1] = monster,
                              !.summoned = TRUE])
        ELSE s

\* a variant whose correction does not ask whose monster it is
SpellEffect_AnyOwner(cid, a, target) ==
    IF cid = "correction" /\ a.target_type = "monster"
    THEN refreshMonsterStats([target EXCEPT !.correctionApplied = TRUE, !.rangeRestrictionStacks = 0])
    ELSE target

\* the effect of spell cid on a present target; Destroy stands for arr[target_slot] = None
SpellEffect(cid, a, target) ==
    LET onMonster == a.target_type = "monster"
        onConstruct == a.target_type = "construct"
        mine == a.target_owner = "me"
        theirs == ~mine
    IN  IF cid = "sample_size" /\ onMonster
        THEN refreshMonsterStats([target EXCEPT !.n = clamp(target.n + 150, 50, 420)])
        ELSE IF cid = "job_relevance" /\ onMonster /\ mine
        THEN [target EXCEPT !.hasJobRelevance = TRUE]
        ELSE IF cid = "imputation" /\ onMonster /\ mine
        THEN [target EXCEPT !.hasImputation = TRUE]
        ELSE IF cid = "p_hacking" /\ onMonster /\ mine
        THEN [target EXCEPT !.hasPHacking = TRUE]
        ELSE IF cid = "practice_effect" /\ onMonster
        THEN [target EXCEPT !.hasPracticeEffect = TRUE]
        ELSE IF cid = "missing_data"
        THEN (IF onMonster /\ target.hasImputation
              THEN [target EXCEPT !.hasImputation = FALSE]
              ELSE None)
        ELSE IF cid = "range_restrict" /\ onMonster /\ theirs
        THEN refreshMonsterStats(
               [target EXCEPT !.rangeRestrictionStacks = Max(0, target.rangeRestrictionStacks) + 1])
        ELSE IF cid = "item_leakage" /\ onMonster /\ theirs
        THEN refreshMonsterStats([target EXCEPT !.itemLeakageApplied = TRUE])
        ELSE IF cid = "correction" /\ onMonster /\ mine
        THEN refreshMonsterStats(
               [target EXCEPT !.correctionApplied = TRUE, !.rangeRestrictionStacks = 0])
        ELSE IF cid = "bootstrapping" /\ onMonster /\ mine
        THEN refreshMonsterStats([target EXCEPT !.baseN = @ + 50, !.n = @ + 50])
        ELSE IF cid = "item_analysis" /\ onConstruct /\ mine /\ Len(target.cards) < 3
        THEN [target EXCEPT !.cards = Append(@, target.cards[Len(target.cards)])]
        ELSE IF cid = "construct_drift" /\ onConstruct /\ theirs
        THEN (IF Len(target.cards) > 1
              THEN [target EXCEPT !.cards = SubSeq(@, 1, Len(@) - 1)]
              ELSE None)
        ELSE IF cid = "criterion_contam" /\ onMonster /\ theirs
        THEN refreshMonsterStats(
               [target EXCEPT !.n = Max(1, target.n \div 2), !.baseN = Max(1, target.baseN \div 2)])
        ELSE target

ApplyPlaySpell(s, a) ==
    LET pid == s.currentPlayer
        me == s.players[pid]
        cid == me.hand[a.hand_index + 1]
        popped == WithPlayer(s, pid, [me EXCEPT !.hand = Pop(me.hand, a.hand_index)])
        who == IF a.target_owner = "me" THEN pid ELSE Other(pid)
        owner == popped.players[who]
        target == IF a.target_type = "construct"
                  THEN owner.constructs[a.target_slot + 1]
                  ELSE owner.monsters[a.target_slot + 1]
    IN  IF target = None THEN popped
        ELSE IF a.target_type = "construct"
        THEN [popped EXCEPT !.players[who].constructs[a.target_slot + 1] = SpellEffect(cid, a, target)]
        ELSE [popped EXCEPT !.players[who].monsters[a.target_slot + 1] = SpellEffect(cid, a, target)]

\* a variant in which the attacker's owner pays for a lost fight with the whole atk of the defender
ApplyAttack_FullDamage(s, a) ==
    LET pid == s.currentPlayer
        oppid == Other(pid)
        me == s.players[pid]
        opp == s.players[oppid]
        slot == a.attacker_slot + 1
        attacker == me.monsters[slot]
        counted == [s EXCEPT !.players[pid].monsters[slot].attacksMade = @ + 1]
    IN  IF attacker = None THEN s
        ELSE IF a.target_type = "lp"
        THEN [counted EXCEPT !.players[oppid].lp = Max(0, opp.lp - attacker.atk)]
        ELSE LET defender == opp.monsters[a.target_slot + 1]
             IN  IF defender = None THEN counted
                 ELSE IF attacker.atk > defender.atk
                 THEN [counted EXCEPT !.players[oppid].lp = Max(0, opp.lp - attacker.atk),
                                      !.players[oppid].monsters[a.target_slot + 1] = None]
                 ELSE [counted EXCEPT !.players[pid].lp = Max(0, me.lp - defender.atk),
                                      !.players[pid].monsters[slot] = None]

ApplyAttack(s, a) ==
    LET pid == s.currentPlayer
        oppid == Other(pid)
        me == s.players[pid]
        opp == s.players[oppid]
        slot == a.attacker_slot + 1
        attacker == me.monsters[slot]
    IN  IF attacker = None THEN s
        ELSE
        LET counted == [s EXCEPT !.players[pid].monsters[slot].attacksMade = @ + 1]
            fought ==
                IF a.target_type = "lp"
                THEN [counted EXCEPT !.players[oppid].lp = Max(0, opp.lp - attacker.atk)]
                ELSE LET defender == opp.monsters[a.target_slot + 1]
                     IN  IF defender = None THEN counted
                         ELSE IF attacker.atk > defender.atk
                         THEN [counted EXCEPT
                                 !.players[oppid].lp = Max(0, opp.lp - (attacker.atk - defender.atk)),
                                 !.players[oppid].monsters[a.target_slot + 1] = None]
                         ELSE IF attacker.atk < defender.atk
                         THEN [counted EXCEPT
                                 !.players[pid].lp = Max(0, me.lp - (defender.atk - attacker.atk)),
                                 !.players[pid].monsters[slot] = None]
                         ELSE [counted EXCEPT
                                 !.players[pid].monsters[slot] = None,
                                 !.players[oppid].monsters[a.target_slot + 1] = None]
            left == fought.players[pid].monsters[slot]
        IN  IF left # None /\ left.hasPHacking
            THEN [fought EXCEPT !.players[pid].monsters[slot] = None]
            ELSE fought

ApplyMeta(s, a) ==
    LET pid == s.currentPlayer
        me == s.players[pid]
    IN  IF localCanMeta(me)
        THEN LET Present(m) == m # None
                 mats == SelectSeq(me.monsters, Present)
             IN  WithPlayer(s, pid, [me EXCEPT !.monsters = <<buildMetaMonster(mats), None, None>>])
        ELSE s

\* a variant that clears the correction only
ClearTurnFlags_KeepLeakage(m) ==
    IF m = None THEN None
    ELSE refreshMonsterStats([m EXCEPT !.correctionApplied = FALSE])

\* lines 493-497: the monsters of the player ending the turn
ClearTurnFlags(m) ==
    IF m = None THEN None
    ELSE refreshMonsterStats([m EXCEPT !.correctionApplied = FALSE, !.itemLeakageApplied = FALSE])

\* a variant that leaves the monster sick
WakeMonster_StillSick(m) ==
    IF m = None THEN None
    ELSE refreshMonsterStats([m EXCEPT !.attacksMade = 0, !.maxAttacks = 1])

\* lines 504-509: the monsters of the player starting the turn
WakeMonster(m) ==
    IF m = None THEN None
    ELSE refreshMonsterStats([m EXCEPT !.summoningSick = FALSE, !.attacksMade = 0, !.maxAttacks = 1])

\* a variant that leaves currentPlayer as it is
ApplyEndTurn_SamePlayer(s, a) ==
    LET pid == s.currentPlayer
        next_pid == Other(pid)
        me == s.players[pid]
        ended == [me EXCEPT !.monsters = [i \in 1 .. 3 |-> ClearTurnFlags(me.monsters[i])]]
        np == s.players[next_pid]
        drawn == enforceHandLimit(drawCards([np EXCEPT !.summoned = FALSE], 1, TRUE))
        woken == [drawn EXCEPT !.monsters = [i \in 1 .. 3 |-> WakeMonster(drawn.monsters[i])]]
    IN  [s EXCEPT !.players = [q \in 1 .. 2 |-> IF q = pid THEN ended ELSE woken]]

ApplyEndTurn(s, a) ==
    LET pid == s.currentPlayer
        next_pid == Other(pid)
        me == s.players[pid]
        ended == [me EXCEPT !.monsters = [i \in 1 .. 3 |-> ClearTurnFlags(me.monsters[i])]]
        np == s.players[next_pid]
        drawn == enforceHandLimit(drawCards([np EXCEPT !.summoned = FALSE], 1, TRUE))
        woken == [drawn EXCEPT !.monsters = [i \in 1 .. 3 |-> WakeMonster(drawn.monsters[i])]]
    IN  [s EXCEPT !.currentPlayer = next_pid,
                  !.players = [q \in 1 .. 2 |-> IF q = pid THEN ended ELSE woken]]

\* a variant that ends the game only below 0 lp
_mark_game_over_Strict(s) ==
    LET p1 == s.players[1]
        p2 == s.players[2]
    IN  IF p1.lp < 0 \/ p2.lp < 0
        THEN [s EXCEPT !.status = "finished", !.winner = IF p1.lp > 0 THEN 1 ELSE 2]
        ELSE s

\* a variant that names the player at 0 lp as the winner
_mark_game_over_LoserWins(s) ==
    LET p1 == s.players[1]
        p2 == s.players[2]
    IN  IF p1.lp <= 0 \/ p2.lp <= 0
        THEN [s EXCEPT !.status = "finished", !.winner = IF p1.lp > 0 THEN 2 ELSE 1]
        ELSE s

_mark_game_over(s) ==
    LET p1 == s.players[1]
        p2 == s.players[2]
    IN  IF p1.lp <= 0 \/ p2.lp <= 0
        THEN [s EXCEPT !.status = "finished", !.winner = IF p1.lp > 0 THEN 1 ELSE 2]
        ELSE s

\* the exceptions of next_state on an active state: hand[hand_index] out of range
\* (IndexError) and card["id"] of an item card (KeyError)
Raises(s, a) ==
    LET me == s.players[s.currentPlayer]
    IN  \/ a.type \in {"place_card", "play_spell"} /\ a.hand_index >= Len(me.hand)
        \/ a.type = "play_spell" /\ a.hand_index < Len(me.hand) /\ IsItem(me.hand[a.hand_index + 1])

\* a variant that hands back the object it was given
_clone_Alias(st) == [s |-> st, shared |-> TRUE]

\* copy.deepcopy: the copy shares nothing with the state it is made from
_clone(st) == [s |-> st, shared |-> FALSE]

Dispatch(s, a) ==
    IF a.type = "place_card" THEN ApplyPlaceCard(s, a)
    ELSE IF a.type = "discard_card" THEN ApplyDiscardCard(s, a)
    ELSE IF a.type = "experience_draw" THEN ApplyExperienceDraw(s, a)
    ELSE IF a.type = "summon" THEN ApplySummon(s, a)
    ELSE IF a.type = "play_spell" THEN ApplyPlaySpell(s, a)
    ELSE IF a.type = "attack" THEN ApplyAttack(s, a)
    ELSE IF a.type = "meta" THEN ApplyMeta(s, a)
    ELSE IF a.type = "end_turn" THEN ApplyEndTurn(s, a)
    ELSE s

\* line 387: place_card of a card that is no item returns before _mark_game_over
ReturnsEarly(s, a) ==
    a.type = "place_card" /\ ~IsItem(s.players[s.currentPlayer].hand[a.hand_index + 1])

\* the result of a call: ret is the returned state (the state passed when the call raises),
\* arg the object that was passed as it is after the call
Returned(st, shared, out) ==
    [ret |-> out, raised |-> FALSE, arg |-> IF shared THEN out ELSE st, shared |-> shared]

\* a variant without the finished check of line 375
Cloned_Unguarded(st, c, a) ==
    IF Raises(c.s, a) THEN [ret |-> st, raised |-> TRUE, arg |-> st, shared |-> c.shared]
    ELSE IF ReturnsEarly(c.s, a) THEN Returned(st, c.shared, c.s)
    ELSE Returned(st, c.shared, _mark_game_over(Dispatch(c.s, a)))

Cloned(st, c, a) ==
    IF c.s.status = "finished" THEN Returned(st, c.shared, c.s)
    ELSE IF Raises(c.s, a) THEN [ret |-> st, raised |-> TRUE, arg |-> st, shared |-> c.shared]
    ELSE IF ReturnsEarly(c.s, a) THEN Returned(st, c.shared, c.s)
    ELSE Returned(st, c.shared, _mark_game_over(Dispatch(c.s, a)))

next_state(st, a) == Cloned(st, _clone(st), a)

is_terminal(s) == s.status = "finished"

\* a variant that gives the loser 0
terminal_value_NoLoss(s, player) ==
    IF ~is_terminal(s) THEN 0
    ELSE IF s.winner = player THEN 1
    ELSE 0

terminal_value(s, player) ==
    IF ~is_terminal(s) THEN 0
    ELSE IF s.winner = player THEN 1
    ELSE IF s.winner = NoWinner THEN 0
    ELSE -1

-----------------------------------------------------------------------------
(* train_alphazero.py: the static action space *)

HandActions(h) ==
    << [type |-> "discard_card", hand_index |-> h] >>
    \o [i \in 1 .. 3 |-> [type |-> "place_card", hand_index |-> h, slot |-> i - 1]]
    \o Flatten([i \in 1 .. 6 |->
          LET owner == IF i <= 3 THEN "me" ELSE "opp"
              target_slot == (i - 1) % 3
          IN  << [type |-> "play_spell", hand_index |-> h, target_owner |-> owner,
                  target_type |-> "monster", target_slot |-> target_slot],
                 [type |-> "play_spell", hand_index |-> h, target_owner |-> owner,
                  target_type |-> "construct", target_slot |-> target_slot] >>])

SummonActions(pred_slot, out_slot) ==
    << [type |-> "summon", pred_slot |-> pred_slot, out_slot |-> out_slot] >>
    \o [i \in 1 .. 3 |-> [type |-> "summon", pred_slot |-> pred_slot, out_slot |-> out_slot,
                          replace_monster_slot |-> i - 1]]

AttackActions(attacker_slot) ==
    << [type |-> "attack", attacker_slot |-> attacker_slot, target_type |-> "lp", target_slot |-> NoSlot] >>
    \o [i \in 1 .. 3 |-> [type |-> "attack", attacker_slot |-> attacker_slot,
                          target_type |-> "monster", target_slot |-> i - 1]]

\* ActionSpace._build: self.actions, the action of id i at index i + 1
ActionSpace ==
    << [type |-> "end_turn"], [type |-> "meta"], [type |-> "experience_draw"] >>
    \o Flatten([h \in 1 .. MAX_HAND_SIZE |-> HandActions(h - 1)])
    \o Flatten([i \in 1 .. 9 |-> SummonActions((i - 1) \div 3, (i - 1) % 3)])
    \o Flatten([i \in 1 .. 3 |-> AttackActions(i - 1)])

\* what to_id gives for an action the space does not hold (the lookup raises KeyError)
KeyError == -1

\* ActionSpace.to_id: the id of the action, or KeyError
to_id(a) ==
    IF \E i \in 1 .. Len(ActionSpace) : ActionSpace[i] = a
    THEN (CHOOSE i \in 1 .. Len(ActionSpace) : ActionSpace[i] = a) - 1
    ELSE KeyError

\* MCTS._legal_ids: the ids of the legal actions the action space knows
_legal_ids(s) ==
    LET known(a) == a \in Range(ActionSpace)
        kept == SelectSeq(legal_actions(s), known)
    IN  [i \in 1 .. Len(kept) |-> to_id(kept[i])]

-----------------------------------------------------------------------------
(* train_alphazero.py: MCTS.  A node is the record of the fields of Node    *)
(* (children: the action ids in insertion order); the node of a child is    *)
(* tree[path of its parent \o <<action id>>], the root is tree[<<>>].       *)
(* Values are in hundredths, priors in ten-thousandths.                     *)

\* --cpuct, default 1.25, in hundredths
CpuctDefault == 125

\* --dirichlet-eps, default 0.25, in hundredths
DirichletEps == 25

Node(st, to_play, prior) ==
    [state |-> st, to_play |-> to_play, prior |-> prior, visit_count |-> 0, value_sum |-> 0,
     children |-> <<>>]

\* what the approximator and the noise source give one call of _expand: the shape of the
\* priors over the legal ids, the shape of the Dirichlet sample, and the value
PriorShapes == {"uniform", "first"}

Values == {-60, 0, 60}

Evaluations == [priors : PriorShapes, noise : PriorShapes, value : Values]

UniformEvaluation == [priors |-> "uniform", noise |-> "uniform", value |-> 0]

\* entry i of k normalised priors of the shape
ShapedPrior(shape, i, k) ==
    IF shape = "uniform" THEN 10000 \div k
    ELSE IF i = 1 THEN 20000 \div (k + 1)
    ELSE 10000 \div (k + 1)

\* lines 305-310: the prior of the i-th of k legal ids
LegalPrior(e, add_root_noise, i, k) ==
    IF add_root_noise
    THEN ((100 - DirichletEps) * ShapedPrior(e.priors, i, k)
            + DirichletEps * ShapedPrior(e.noise, i, k)) \div 100
    ELSE ShapedPrior(e.priors, i, k)

\* lines 312-314: node path with a child for every id of ids that it has no child for
WithChildren(t, path, ids, e, add_root_noise) ==
    LET fresh == { i \in 1 .. Len(ids) : (path \o <<ids[i]>>) \notin DOMAIN t
                                          /\ \A j \in 1 .. i - 1 : ids[j] # ids[i] }
        IsFresh(i) == i \in fresh
        added == SelectSeq([i \in 1 .. Len(ids) |-> i], IsFresh)
    IN  [p \in DOMAIN t \cup { path \o <<ids[i]>> : i \in fresh } |->
            IF p = path THEN [t[p] EXCEPT !.children = @ \o [j \in 1 .. Len(added) |-> ids[added[j]]]]
            ELSE IF p \in DOMAIN t THEN t[p]
            ELSE LET i == CHOOSE i \in fresh : p = path \o <<ids[i]>>
                 IN  Node(None, 0, LegalPrior(e, add_root_noise, i, Len(ids)))]


\* MCTS._expand: the tree after it and the value it returns
_expand(t, path, e, add_root_noise) ==
    [tree |-> WithChildren(t, path, _legal_ids(t[path].state), e, add_root_noise),
     value |-> e.value]

\* Node.q, in units of 10^-8
q(node) ==
    IF node.visit_count = 0 THEN 0
    ELSE IF node.value_sum >= 0 THEN (node.value_sum * 1000000) \div node.visit_count
    ELSE -(((-node.value_sum) * 1000000) \div node.visit_count)

\* line 322-323: the score of a child, in units of 10^-8
ChildScore(parent, child) ==
    q(child) + (CpuctDefault * child.prior * SqrtSearch(Max(1, parent.visit_count) * 10000, 0, 10000))
                  \div (1 + child.visit_count)

\* MCTS._select_child: the id of the first child with the best score
_select_child(t, path) ==
    LET ids == t[path].children
        score == [i \in 1 .. Len(ids) |-> ChildScore(t[path], t[path \o <<ids[i]>>])]
    IN  ids[CHOOSE i \in 1 .. Len(ids) :
                /\ \A j \in 1 .. Len(ids) : score[j] <= score[i]
                /\ \A j \in 1 .. i - 1 : score[j] < score[i]]

\* lines 340-343: the child gets its state the first time it is selected
Entered(t, cpath, next) ==
    IF t[cpath].state = None
    THEN [t EXCEPT ![cpath].state = next, ![cpath].to_play = next.currentPlayer]
    ELSE t

\* lines 337-347: from node path down to a node without children or with a terminal state
RECURSIVE Descend(_, _)
Selected(t, path, cpath) ==
    IF t[cpath].state = None
    THEN Entered(t, cpath, next_state(t[path].state, ActionSpace[cpath[Len(cpath)] + 1]).ret)
    ELSE t

Arrived(t, cpath) ==
    IF is_terminal(t[cpath].state) THEN [tree |-> t, path |-> cpath] ELSE Descend(t, cpath)

Chosen(t, path, cpath) == Arrived(Selected(t, path, cpath), cpath)

Descend(t, path) ==
    IF t[path].children = <<>> THEN [tree |-> t, path |-> path]
    ELSE Chosen(t, path, path \o << _select_child(t, path) >>)

\* a variant that adds the same value at every level
RECURSIVE Backup_SameSign(_, _, _, _)
Backup_SameSign(t, path, k, value) ==
    IF k < 0 THEN t
    ELSE Backup_SameSign([t EXCEPT ![SubSeq(path, 1, k)].visit_count = @ + 1,
                                    ![SubSeq(path, 1, k)].value_sum = @ + value],
                         path, k - 1, value)

\* a variant that counts the simulation at the root alone
Backup_RootOnly(t, path, k, value) ==
    [t EXCEPT ![<<>>].visit_count = @ + 1, ![<<>>].value_sum = @ + value]

\* lines 354-357: the first k nodes of the path, deepest first, take the value with
\* alternating sign
RECURSIVE Backup(_, _, _, _)
Backup(t, path, k, value) ==
    IF k < 0 THEN t
    ELSE Backup([t EXCEPT ![SubSeq(path, 1, k)].visit_count = @ + 1,
                          ![SubSeq(path, 1, k)].value_sum = @ + value],
                path, k - 1, -value)

Expanded(x, path) == Backup(x.tree, path, Len(path), x.value)

\* a variant that values a terminal node for the opponent of the player to move in it
Evaluated_OpponentView(d, e) ==
    IF is_terminal(d.tree[d.path].state)
    THEN Backup(d.tree, d.path, Len(d.path),
                100 * terminal_value(d.tree[d.path].state, Other(d.tree[d.path].to_play)))
    ELSE Expanded(_expand(d.tree, d.path, e, FALSE), d.path)

\* lines 349-357: the value of the node reached and its way back up
Evaluated(d, e) ==
    IF is_terminal(d.tree[d.path].state)
    THEN Backup(d.tree, d.path, Len(d.path),
                100 * terminal_value(d.tree[d.path].state, d.tree[d.path].to_play))
    ELSE Expanded(_expand(d.tree, d.path, e, FALSE), d.path)

\* one pass of the loop of line 333
Simulation(t, e) == Evaluated(Descend(t, <<>>), e)

\* lines 359-364: the visit count of every id (0 for an id without a root child) and
\* their total; policy[id] is visits[id] / total, and 0 when the total is 0
PolicyOf(t) ==
    LET visits == [id \in 0 .. Len(ActionSpace) - 1 |->
                      IF <<id>> \in DOMAIN t THEN t[<<id>>].visit_count ELSE 0]
        kids == t[<<>>].children
    IN  [visits |-> visits,
         total |-> SumOver([i \in 1 .. Len(kids) |-> t[<<kids[i]>>].visit_count], Len(kids))]

SearchIdle ==
    /\ tree = << >>
    /\ simulations = 0
    /\ simsDone = 0
    /\ training = FALSE
    /\ policy = None
    /\ searchPc = "idle"

TrainerIdle ==
    /\ replay = << >>
    /\ replaySize = 0
    /\ appended = << >>
    /\ gating = None
    /\ episode = None

-----------------------------------------------------------------------------
(* The states the exploration starts from.  Besides initial_state these are *)
(* mid-game positions built the way _parity_sanity_sequences builds its own *)
(* (a clone of initial_state with hands, lp and boards set), with monsters  *)
(* made by buildMonster and woken as end_turn wakes them.                  *)

Stack(cid, k) == [type |-> CONSTRUCTS[cid].type, constructId |-> cid, cards |-> Repeat(cid, k)]

\* a monster summoned from stacks of kp and ko cards whose owner's turn has begun since
Fielded(pred, kp, out, ko) == WakeMonster(buildMonster(Stack(pred, kp), Stack(out, ko)))

Position(p1, p2) == [initial_state EXCEPT !.players = <<p1, p2>>]

Seat == initial_state.players[1]

\* lines 536-537: P1 holds cog_ability, job_perf and job_relevance, P2 nothing
SummonTrace ==
    Position([Seat EXCEPT !.hand = <<"cog_ability", "job_perf", "job_relevance">>],
             [Seat EXCEPT !.hand = <<>>])

\* lines 552-555: P1's monster is awake, P2 has no monsters and 100 lp
LethalTrace ==
    Position([Seat EXCEPT !.hand = <<"p_hacking">>,
                          !.monsters = <<[Fielded("cog_ability", 1, "job_perf", 1)
                                             EXCEPT !.hasJobRelevance = TRUE], None, None>>],
             [Seat EXCEPT !.hand = <<>>, !.lp = 100])

\* a full board: three monsters of one predictor that lack job relevance, two stacks
\* ready to summon, decks nearly empty
FullBoard ==
    Position([Seat EXCEPT !.hand = <<>>,
                          !.deck = <<"cog_ability">>,
                          !.constructs = <<Stack("work_sample", 1), Stack("ocb", 2), None>>,
                          !.monsters = << Fielded("cog_ability", 1, "job_perf", 1),
                                          Fielded("cog_ability", 2, "turnover", 1),
                                          Fielded("cog_ability", 1, "job_sat", 3) >>],
             [Seat EXCEPT !.hand = <<"construct_drift">>,
                          !.deck = <<"cog_ability">>,
                          !.lp = 600,
                          !.summoned = TRUE,
                          !.monsters = <<None, [Fielded("struct_int", 1, "job_perf", 1)
                                                   EXCEPT !.hasJobRelevance = TRUE], None>>])

\* experience tokens to spend with eleven cards in hand
TokenStart ==
    Position([Seat EXCEPT !.hand = SubSeq(Seat.hand, 1, 11),
                          !.experienceTokens = EXPERIENCE_MISS_THRESHOLD],
             [Seat EXCEPT !.hand = <<>>])

\* the monster of the range-restriction parity trace: atk 10000
ParityMonster ==
    refreshMonsterStats([Fielded("cog_ability", 1, "job_perf", 1)
                            EXCEPT !.rTrue = 1000000, !.predAlpha = 1000000, !.outAlpha = 1000000])

\* P1 holds range_restrict three times and item_leakage against two monsters of P2
SpellDuel ==
    Position([Seat EXCEPT !.hand = <<"range_restrict", "range_restrict", "range_restrict",
                                     "item_leakage">>,
                          !.deck = <<"cog_ability">>],
             [Seat EXCEPT !.hand = <<>>,
                          !.deck = <<"cog_ability">>,
                          !.monsters = <<Fielded("cog_ability", 1, "job_perf", 1), None,
                                         ParityMonster>>])

\* P2 holds twelve items that no slot takes (three full stacks of other constructs), in
\* front of three monsters of one outcome
MetaDiscard ==
    Position([Seat EXCEPT !.hand = <<>>, !.deck = <<"construct_drift">>],
             [Seat EXCEPT !.hand = Repeat("cog_ability", 3) \o Repeat("struct_int", 3)
                                     \o Repeat("conscient", 3) \o Repeat("work_sample", 3),
                          !.deck = <<"work_sample">>,
                          !.constructs = <<Stack("ocb", 3), Stack("job_sat", 3), Stack("turnover", 3)>>,
                          !.monsters = << Fielded("cog_ability", 1, "job_perf", 1),
                                          Fielded("struct_int", 2, "job_perf", 1),
                                          Fielded("conscient", 1, "job_perf", 2) >>])

\* stacks of two cards on both sides, spells on stacks in hand, and a monster on each side
\* with the same atk
StackDuel ==
    Position([Seat EXCEPT !.hand = <<"missing_data", "item_analysis", "construct_drift", "correction">>,
                          !.deck = <<"cog_ability">>,
                          !.constructs = <<Stack("cog_ability", 2), None, None>>,
                          !.monsters = <<[Fielded("conscient", 1, "turnover", 1)
                                             EXCEPT !.hasJobRelevance = TRUE], None, None>>],
             [Seat EXCEPT !.hand = <<>>,
                          !.deck = <<"ocb">>,
                          !.constructs = <<Stack("job_perf", 2), None, None>>,
                          !.monsters = <<None, Fielded("conscient", 1, "turnover", 1), None>>])

InitialStates ==
    {initial_state, SummonTrace, LethalTrace, FullBoard, TokenStart, SpellDuel, MetaDiscard,
     StackDuel}

NoAction == [type |-> "none"]

Init ==
    /\ state \in InitialStates
    /\ action = NoAction
    /\ before = state
    /\ input = state
    /\ origin = state
    /\ originNow = state
    /\ raised = FALSE
    /\ turns = 0
    /\ SearchIdle
    /\ TrainerIdle

-----------------------------------------------------------------------------
(* Actions: one call of next_state *)

\* the caller's variables after a call that gave r
Commit(a, cost, r) ==
    /\ state' = r.ret
    /\ action' = a
    /\ before' = state
    /\ input' = r.arg
    /\ origin' = origin
    /\ originNow' = IF r.shared THEN r.ret ELSE originNow
    /\ raised' = r.raised
    /\ turns' = turns + cost
    /\ UNCHANGED <<searchVars, trainerVars>>

Call(a, cost) ==
    /\ ~raised
    /\ turns + cost <= MaxTurns + 1
    /\ Commit(a, cost, next_state(state, a))

Legal == Range(legal_actions(state))

PlaceCard == \E a \in Legal : a.type = "place_card" /\ Call(a, 0)

DiscardCard == \E a \in Legal : a.type = "discard_card" /\ Call(a, 0)

ExperienceDraw == \E a \in Legal : a.type = "experience_draw" /\ Call(a, 0)

Summon == \E a \in Legal : a.type = "summon" /\ Call(a, 0)

PlaySpell == \E a \in Legal : a.type = "play_spell" /\ Call(a, 0)

Attack == \E a \in Legal : a.type = "attack" /\ Call(a, 0)

Meta == \E a \in Legal : a.type = "meta" /\ Call(a, 0)

EndTurn == \E a \in Legal : a.type = "end_turn" /\ turns < MaxTurns /\ Call(a, 1)

\* next_state called on a finished state, with any action of the action space;
\* the call ends the exploration
TerminalCall ==
    /\ is_terminal(state)
    /\ turns < MaxTurns + 1
    /\ \E a \in Range(ActionSpace) : Call(a, MaxTurns + 1 - turns)

Next ==
    \/ PlaceCard
    \/ DiscardCard
    \/ ExperienceDraw
    \/ Summon
    \/ PlaySpell
    \/ Attack
    \/ Meta
    \/ EndTurn
    \/ TerminalCall

Spec == Init /\ [][Next]_vars

-----------------------------------------------------------------------------
(* Claims.  A claim about "the state produced by an action" reads the last  *)
(* call: before is the state it was given, action its action, state the    *)
(* state it returned.                                                      *)

Acted == action.type # "none" /\ ~raised

Current(s) == s.players[s.currentPlayer]

Opponent(s) == s.players[Other(s.currentPlayer)]

EndTurnAction == [type |-> "end_turn"]

\* C1: every legal action other than end_turn of a reachable active state is applied
\* without an exception and leaves currentPlayer as it was.
C1_LegalActionKeepsPlayer ==
    state.status = "active" /\ ~raised =>
        \A a \in Legal :
            a.type # "end_turn" =>
                /\ ~next_state(state, a).raised
                /\ next_state(state, a).ret.currentPlayer = state.currentPlayer

C1_Witness ==
    /\ Acted
    /\ action.type = "place_card"
    /\ before.status = "active"
    /\ state # before
    /\ state.currentPlayer = before.currentPlayer

\* C2 as stated: in every state end_turn is legal and applying it toggles currentPlayer.
C2_EndTurnAlwaysLegal ==
    /\ EndTurnAction \in Legal
    /\ next_state(state, EndTurnAction).ret.currentPlayer = Other(state.currentPlayer)

\* C2 amended: in every active state whose current player has no pending discard,
\* end_turn is legal and applying it toggles currentPlayer between 1 and 2.
C2_EndTurnLegalWhenNoDiscard ==
    state.status = "active" /\ Current(state).pendingDiscard = 0 /\ ~raised =>
        /\ EndTurnAction \in Legal
        /\ ~next_state(state, EndTurnAction).raised
        /\ next_state(state, EndTurnAction).ret.currentPlayer = Other(state.currentPlayer)
        /\ next_state(state, EndTurnAction).ret.currentPlayer \in {1, 2}

C2_Witness ==
    /\ Acted
    /\ action = EndTurnAction
    /\ Current(before).pendingDiscard = 0
    /\ before.currentPlayer = 2
    /\ state.currentPlayer = 1

HandsWithinCap(s) == \A p \in 1 .. 2 : Len(s.players[p].hand) <= MAX_HAND_SIZE

Overflow(s) == Len(Current(s).hand) - MAX_HAND_SIZE

\* C3 as stated: after any action other than experience_draw every hand holds at most
\* 12 cards; after experience_draw pendingDiscard = |hand| - 12 whenever positive.
C3_HandCapAsStated ==
    Acted =>
        /\ action.type # "experience_draw" => HandsWithinCap(state)
        /\ action.type = "experience_draw" /\ Overflow(state) > 0 =>
               Current(state).pendingDiscard = Overflow(state)

\* C3 amended: after any legal action other than experience_draw, end_turn and
\* discard_card every hand holds at most 12 cards; after experience_draw or end_turn
\* (both draw with overflow) the current player's pendingDiscard = |hand| - 12 whenever
\* that is positive and the other hand holds at most 12; after discard_card the hand
\* holds at most 12 cards plus the discards still pending.
C3_HandCap ==
    Acted /\ before.status = "active" =>
        /\ action.type \notin {"experience_draw", "end_turn", "discard_card"} => HandsWithinCap(state)
        /\ action.type \in {"experience_draw", "end_turn"} =>
               /\ Overflow(state) > 0 => Current(state).pendingDiscard = Overflow(state)
               /\ Len(Opponent(state).hand) <= MAX_HAND_SIZE
        /\ action.type = "discard_card" =>
               /\ Len(Current(state).hand) <= MAX_HAND_SIZE + Current(state).pendingDiscard
               /\ Len(Opponent(state).hand) <= MAX_HAND_SIZE

C3_Witness ==
    /\ Acted
    /\ action.type = "experience_draw"
    /\ Len(Current(state).hand) = MAX_HAND_SIZE + 2
    /\ Current(state).pendingDiscard = 2

\* C4: in every state reached from initial_state by legal actions, every action of
\* legal_actions has an id in the static action space.
C4_ActionSpaceClosure ==
    origin = initial_state => \A a \in Legal : to_id(a) # KeyError

\* C5: next_state of a finished state returns that state, whatever the action.
C5_TerminalFinality ==
    action.type # "none" /\ is_terminal(before) => state = before /\ ~raised

C5_Witness ==
    /\ Acted
    /\ is_terminal(before)
    /\ action = EndTurnAction
    /\ state = before

\* the guard of a summon that takes effect
SummonValid(s, a) ==
    LET pred == Current(s).constructs[a.pred_slot + 1]
        out == Current(s).constructs[a.out_slot + 1]
    IN  /\ pred # None
        /\ out # None
        /\ pred.type = "predictor"
        /\ out.type = "outcome"
        /\ a.pred_slot # a.out_slot

SummonSucceeded == Acted /\ action.type = "summon" /\ before.status = "active" /\ SummonValid(before, action)

\* C6: a successful summon empties both source slots and sets summoned; while the
\* current player's summoned flag is set no summon is legal; and a player's flag is
\* cleared only by the end_turn of the opponent that makes the player current again.
C6_OneSummonPerTurn ==
    /\ SummonSucceeded =>
          /\ Current(state).constructs[action.pred_slot + 1] = None
          /\ Current(state).constructs[action.out_slot + 1] = None
          /\ Current(state).summoned
    /\ Current(state).summoned => \A a \in Legal : a.type # "summon"
    /\ \A p \in 1 .. 2 :
          before.players[p].summoned /\ ~state.players[p].summoned =>
              /\ action = EndTurnAction
              /\ before.currentPlayer = Other(p)
              /\ state.currentPlayer = p

C6_Witness ==
    /\ SummonSucceeded
    /\ ~Current(before).summoned
    /\ Current(state).summoned
    /\ \E a \in Range(legal_actions(before)) : a.type = "summon"

\* C7: after any action applied to an active state, a player's lp <= 0 means the state
\* is finished with the other player as winner; both lp > 0 means active, no winner.
C7_GameOverIffLpGone ==
    Acted /\ before.status = "active" =>
        LET lp1 == state.players[1].lp
            lp2 == state.players[2].lp
        IN  /\ lp1 <= 0 => state.status = "finished" /\ state.winner = 2
            /\ lp2 <= 0 => state.status = "finished" /\ state.winner = 1
            /\ lp1 > 0 /\ lp2 > 0 => state.status = "active" /\ state.winner = NoWinner

C7_Witness ==
    /\ Acted
    /\ before.status = "active"
    /\ action.type = "attack"
    /\ action.target_type = "monster"
    /\ Opponent(state).lp = 0
    /\ state.status = "finished"
    /\ state.winner = before.currentPlayer

\* C8: a direct attack with atk >= the opponent's lp finishes the game with the
\* attacker's owner as winner; terminal_value is +1 for the winner and -1 for the
\* other player in a finished state, and 0 for both in an active state.
C8_LethalDirectAttack ==
    /\ ( /\ Acted
         /\ before.status = "active"
         /\ action.type = "attack"
         /\ action.target_type = "lp"
         /\ Current(before).monsters[action.attacker_slot + 1] # None
         /\ Current(before).monsters[action.attacker_slot + 1].atk >= Opponent(before).lp )
       => state.status = "finished" /\ state.winner = before.currentPlayer
    /\ is_terminal(state) =>
          /\ state.winner \in {1, 2}
          /\ terminal_value(state, state.winner) = 1
          /\ terminal_value(state, Other(state.winner)) = -1
          /\ terminal_value(state, 1) + terminal_value(state, 2) = 0
    /\ ~is_terminal(state) => terminal_value(state, 1) = 0 /\ terminal_value(state, 2) = 0

C8_Witness ==
    /\ Acted
    /\ before.status = "active"
    /\ action.type = "attack"
    /\ action.target_type = "lp"
    /\ Current(before).monsters[action.attacker_slot + 1].atk >= Opponent(before).lp
    /\ is_terminal(state)
    /\ terminal_value(state, before.currentPlayer) = 1

C10_SummonPlacement ==
    SummonSucceeded =>
        LET old == Current(before).monsters
            new == Current(state).monsters
            full == \A i \in 1 .. 3 : old[i] # None
            Target(i) ==
                IF full THEN i = action.replace_monster_slot + 1
                ELSE old[i] = None /\ \A j \in 1 .. i - 1 : old[j] # None
        IN  \A i \in 1 .. 3 :
                IF Target(i)
                THEN /\ new[i] # None
                     /\ new[i].predId = Current(before).constructs[action.pred_slot + 1].constructId
                     /\ new[i].outId = Current(before).constructs[action.out_slot + 1].constructId
                     /\ new[i].summoningSick
                     /\ new[i].attacksMade = 0
                ELSE new[i] = old[i]

C10_Witness ==
    /\ SummonSucceeded
    /\ \A i \in 1 .. 3 : Current(before).monsters[i] # None
    /\ action.replace_monster_slot = 2
    /\ Current(state).monsters[3].predId = "work_sample"
    /\ Current(state).monsters[3].summoningSick

Monsters(s, p) == {s.players[p].monsters[i] : i \in 1 .. 3} \ {None}

\* C11: a summoned monster stays summoningSick, and is never offered as an attacker,
\* until an end_turn makes its owner the current player; after every end_turn each
\* monster of the player whose turn begins has summoningSick = false, attacksMade = 0
\* and maxAttacks = 1.
C11_SicknessUntilOwnersTurn ==
    /\ \A a \in Legal :
          a.type = "attack" => ~Current(state).monsters[a.attacker_slot + 1].summoningSick
    /\ Acted /\ before.status = "active" =>
          \A p \in 1 .. 2 : \A i \in 1 .. 3 :
              LET old == before.players[p].monsters[i]
                  new == state.players[p].monsters[i]
              IN  ( /\ old # None
                    /\ new # None
                    /\ old.summoningSick
                    /\ ~new.summoningSick
                    /\ new.isMeta = old.isMeta )
                  => action = EndTurnAction /\ state.currentPlayer = p
    /\ Acted /\ before.status = "active" /\ action = EndTurnAction =>
          \A m \in Monsters(state, state.currentPlayer) :
              ~m.summoningSick /\ m.attacksMade = 0 /\ m.maxAttacks = 1

C11_Witness ==
    /\ Acted
    /\ action = EndTurnAction
    /\ turns = 2
    /\ origin.players[1].monsters = <<None, None, None>>
    /\ before.players[1].monsters[1] # None
    /\ before.players[1].monsters[1].summoningSick
    /\ state.currentPlayer = 1
    /\ ~state.players[1].monsters[1].summoningSick
    /\ \E a \in Legal : a.type = "attack" /\ a.attacker_slot = 0

\* the card a play_spell action takes from the hand
SpellCard(s, a) == Current(s).hand[a.hand_index + 1]

\* the action casts spell cid on a monster of the opponent that is there
CastOnOpponentMonster(cid) ==
    /\ Acted
    /\ before.status = "active"
    /\ action.type = "play_spell"
    /\ SpellCard(before, action) = cid
    /\ action.target_owner = "opp"
    /\ action.target_type = "monster"
    /\ Opponent(before).monsters[action.target_slot + 1] # None

\* no modifier that atk depends on differs between monster m and monster ref
SameModifiers(m, ref) ==
    /\ m.predId = ref.predId
    /\ m.outId = ref.outId
    /\ m.rTrue = ref.rTrue
    /\ m.predAlpha = ref.predAlpha
    /\ m.outAlpha = ref.outAlpha
    /\ m.validityMultiplier = ref.validityMultiplier
    /\ m.rangeRestrictionStacks = ref.rangeRestrictionStacks
    /\ ~m.correctionApplied
    /\ ~ref.correctionApplied

\* the end_turn of player p has cleared the leakage of p's monsters: each monster of p
\* that carried the flag is no longer flagged, and has the atk it had in the first
\* state when it was not leaked there and its other modifiers are as they were
LeakageCleared(p) ==
    \A i \in 1 .. 3 :
        LET old == before.players[p].monsters[i]
            new == state.players[p].monsters[i]
            ref == origin.players[p].monsters[i]
        IN  old # None /\ old.itemLeakageApplied =>
                /\ new # None
                /\ ~new.itemLeakageApplied
                /\ (ref # None /\ ~ref.itemLeakageApplied /\ SameModifiers(old, ref)) => new.atk = ref.atk

LeakageZeroes ==
    CastOnOpponentMonster("item_leakage") =>
        LET m == Opponent(state).monsters[action.target_slot + 1]
        IN  m # None /\ m.itemLeakageApplied /\ m.rObs = 0 /\ m.atk = 0

EndedTurn == Acted /\ before.status = "active" /\ action = EndTurnAction

HalfToEven(x) == (x \div 2) + (IF x % 2 = 1 /\ (x \div 2) % 2 = 1 THEN 1 ELSE 0)

\* the base that the halvings of monster m start from
EffectiveAtkBase(m) ==
    IF m.correctionApplied
    THEN RoundDiv(Abs(m.rTrue) * (IF m.itemLeakageApplied THEN 0 ELSE Max(0, m.validityMultiplier)), 100)
    ELSE m.baseAtk

\* C13: a range_restrict cast on an opponent's non-meta monster adds 1 to its
\* rangeRestrictionStacks and leaves atk = the effective base halved once per stack, each
\* halving rounded half to even; a base of 10000 gives 5000, 2500, 1250.
C13_RangeRestrictionHalving ==
    CastOnOpponentMonster("range_restrict") /\ ~Opponent(before).monsters[action.target_slot + 1].isMeta =>
        LET old == Opponent(before).monsters[action.target_slot + 1]
            new == Opponent(state).monsters[action.target_slot + 1]
            base == EffectiveAtkBase(new)
            once == HalfToEven(base)
            twice == HalfToEven(once)
            thrice == HalfToEven(twice)
        IN  /\ new # None
            /\ new.rangeRestrictionStacks = old.rangeRestrictionStacks + 1
            /\ new.rangeRestrictionStacks = 1 => new.atk = once
            /\ new.rangeRestrictionStacks = 2 => new.atk = twice
            /\ new.rangeRestrictionStacks = 3 => new.atk = thrice
            /\ base = 10000 => new.atk = (CASE new.rangeRestrictionStacks = 1 -> 5000
                                            [] new.rangeRestrictionStacks = 2 -> 2500
                                            [] new.rangeRestrictionStacks = 3 -> 1250)

C13_Witness ==
    /\ CastOnOpponentMonster("range_restrict")
    /\ action.target_slot = 2
    /\ Opponent(before).monsters[3].atk = 2500
    /\ Opponent(state).monsters[3].baseAtk = 10000
    /\ Opponent(state).monsters[3].rangeRestrictionStacks = 3
    /\ Opponent(state).monsters[3].atk = 1250

MetaAction == [type |-> "meta"]

\* the three monster slots of player p are occupied, none by a meta monster, and the three
\* monsters share their predId or share their outId
MetaEligible(p) ==
    LET m == p.monsters
    IN  /\ \A i \in 1 .. 3 : m[i] # None
        /\ \A i \in 1 .. 3 : m[i] # None => ~m[i].isMeta
        /\ \/ \A i \in 1 .. 3 : m[i] # None => m[i].predId = m[1].predId
           \/ \A i \in 1 .. 3 : m[i] # None => m[i].outId = m[1].outId

\* the state a meta action gave: slots 1 and 2 empty, slot 0 the meta monster of the three
MetaEffect ==
    Acted /\ before.status = "active" /\ action = MetaAction /\ MetaEligible(Current(before)) =>
        LET src == Current(before).monsters
            new == Current(state).monsters
            sum_n == src[1].baseN + src[2].baseN + src[3].baseN
            mean_r == (Abs(src[1].rObs) + Abs(src[2].rObs) + Abs(src[3].rObs)) \div 3
            r == Max(350000, Min(950000, (mean_r * 135) \div 100))
        IN  /\ new[2] = None
            /\ new[3] = None
            /\ new[1] # None
            /\ new[1].isMeta
            /\ ~new[1].summoningSick
            /\ new[1].n = sum_n
            /\ new[1].baseN = sum_n
            /\ new[1].atk = RoundDiv(r, 100)

\* C14 as stated: meta is in legal_actions, and changes the state, exactly when the
\* current player's three monster slots are occupied, none by a meta monster, and the
\* three share predId or outId; it leaves slots 1 and 2 empty and slot 0 holding a meta
\* monster with summoningSick false, n = baseN = the sum of the sources' baseN and
\* atk = round(clamp(mean |rObs| * 1.35, 0.35, 0.95) * 10000).
C14_MetaExactlyWhenEligible ==
    /\ MetaAction \in Legal <=> MetaEligible(Current(state))
    /\ next_state(state, MetaAction).ret # state <=> MetaEligible(Current(state))
    /\ MetaEffect

\* C14 amended: the same for active states, with meta in legal_actions only while the
\* current player has no pending discard.
C14_MetaWhenEligibleAndNoDiscard ==
    /\ state.status = "active" /\ ~raised =>
          /\ MetaAction \in Legal <=>
                 MetaEligible(Current(state)) /\ Current(state).pendingDiscard = 0
          /\ next_state(state, MetaAction).ret # state <=> MetaEligible(Current(state))
    /\ MetaEffect

C14_Witness ==
    /\ Acted
    /\ action = MetaAction
    /\ MetaEligible(Current(before))
    /\ Current(state).monsters[1].isMeta
    /\ Current(state).monsters[1].baseN = 150
    /\ Current(state).monsters[2] = None
    /\ ~MetaEligible(Current(state))

-----------------------------------------------------------------------------
(* refreshMonsterStats on its own: a monster in slot 0 of player 1 is refreshed *)
(* again and again.                                                         *)

MaxRefresh == 2

\* monsters as the engine builds them
BuiltMonsters ==
    { Fielded("cog_ability", 1, "job_perf", 1),
      Fielded("conscient", 2, "ocb", 3),
      buildMonster(Stack("work_sample", 3), Stack("job_perf", 2)),
      buildMetaMonster(<<Fielded("cog_ability", 1, "job_perf", 1),
                         Fielded("cog_ability", 2, "turnover", 1),
                         Fielded("cog_ability", 1, "job_sat", 3)>>),
      ParityMonster }

\* the same with every combination of the fields that refreshMonsterStats reads, set as
\* the spells set them (without the refresh that follows, which is the call under study)
MonsterInputs ==
    { [m EXCEPT !.itemLeakageApplied = leak,
                !.correctionApplied = corr,
                !.rangeRestrictionStacks = stacks,
                !.n = n,
                !.power = IF m.isMeta /\ leak THEN 500000 ELSE m.power] :
        m \in BuiltMonsters, leak \in BOOLEAN, corr \in BOOLEAN, stacks \in 0 .. 3, n \in {50, 200, 420} }

RefreshAction == [type |-> "refresh"]

InitRefresh ==
    /\ state \in { Position([Seat EXCEPT !.monsters = <<m, None, None>>], Seat) : m \in MonsterInputs }
    /\ action = NoAction
    /\ before = state
    /\ input = state
    /\ origin = state
    /\ originNow = state
    /\ raised = FALSE
    /\ turns = 0
    /\ SearchIdle
    /\ TrainerIdle

Refresh ==
    /\ turns < MaxRefresh
    /\ state' = [state EXCEPT !.players[1].monsters[1] = refreshMonsterStats(@)]
    /\ action' = RefreshAction
    /\ before' = state
    /\ turns' = turns + 1
    /\ UNCHANGED <<input, origin, originNow, raised, searchVars, trainerVars>>

NextRefresh == Refresh

SpecRefresh == InitRefresh /\ [][NextRefresh]_vars

\* C15: a second refreshMonsterStats in a row leaves rObs, baseAtk, atk and power as the
\* first one gave them, for meta and other monsters under every flag combination.
C15_RefreshIdempotent ==
    action = RefreshAction /\ turns >= 2 =>
        LET once == before.players[1].monsters[1]
            twice == state.players[1].monsters[1]
        IN  /\ twice.rObs = once.rObs
            /\ twice.baseAtk = once.baseAtk
            /\ twice.atk = once.atk
            /\ twice.power = once.power

C15_Witness ==
    /\ action = RefreshAction
    /\ turns = 2
    /\ origin.players[1].monsters[1].atk # before.players[1].monsters[1].atk
    /\ before.players[1].monsters[1].correctionApplied
    /\ before.players[1].monsters[1].rangeRestrictionStacks = 3
    /\ state.players[1].monsters[1].atk = before.players[1].monsters[1].atk
    /\ state.players[1].monsters[1].atk > 0

-----------------------------------------------------------------------------
(* MCTS.run on its own: state is the root state passed to it; the calls of  *)
(* the approximator are drawn from the set an action is given.              *)

MaxSimulations == 2

\* player 2 with thirteen cards and a discard pending
Overflowed == next_state(initial_state, EndTurnAction).ret

\* one legal action wins at once: the direct attack on 100 lp; the other is end_turn
LethalRoot == [LethalTrace EXCEPT !.players[1].hand = <<>>, !.players[1].summoned = TRUE]

SearchRoots == {SummonTrace, LethalTrace, LethalRoot, Overflowed}

InitGameAt(roots) ==
    /\ state \in roots
    /\ action = NoAction
    /\ before = state
    /\ input = state
    /\ origin = state
    /\ originNow = state
    /\ raised = FALSE
    /\ turns = 0

InitSearch ==
    /\ InitGameAt(SearchRoots)
    /\ tree = << >>
    /\ simulations \in 0 .. MaxSimulations
    /\ simsDone = 0
    /\ training \in BOOLEAN
    /\ policy = None
    /\ searchPc = "idle"
    /\ TrainerIdle

GameUnchanged ==
    UNCHANGED <<state, action, before, input, origin, originNow, raised, turns, trainerVars>>

\* lines 330-331: the root and its expansion
RunBeginWith(evaluations) ==
    /\ searchPc = "idle"
    /\ \E e \in evaluations :
          tree' = _expand(<<>> :> Node(state, state.currentPlayer, 0), <<>>, e, training).tree
    /\ searchPc' = "searching"
    /\ UNCHANGED <<simulations, simsDone, training, policy>>
    /\ GameUnchanged

\* lines 333-357: one simulation
SimulateWith(evaluations) ==
    /\ searchPc = "searching"
    /\ simsDone < simulations
    /\ \E e \in evaluations : tree' = Simulation(tree, e)
    /\ simsDone' = simsDone + 1
    /\ UNCHANGED <<simulations, training, policy, searchPc>>
    /\ GameUnchanged

\* lines 359-364
RunReturn ==
    /\ searchPc = "searching"
    /\ simsDone = simulations
    /\ policy' = PolicyOf(tree)
    /\ searchPc' = "returned"
    /\ UNCHANGED <<tree, simulations, simsDone, training>>
    /\ GameUnchanged

RunBegin == RunBeginWith(Evaluations)

Simulate == SimulateWith(Evaluations)

NextSearch == RunBegin \/ Simulate \/ RunReturn

SpecSearch == InitSearch /\ [][NextSearch]_vars

RootVisits ==
    SumOver([i \in 1 .. Len(tree[<<>>].children) |-> tree[<<tree[<<>>].children[i]>>].visit_count],
            Len(tree[<<>>].children))

\* the policy p is N visits, all on the ids of the sequence ids
VisitsWithin(p, ids, N) ==
    /\ p.total = N
    /\ SumOver([i \in 1 .. Len(ids) |-> p.visits[ids[i]]], Len(ids)) = p.total
    /\ DOMAIN p.visits = 0 .. Len(ActionSpace) - 1
    /\ \A id \in DOMAIN p.visits : id \notin Range(ids) => p.visits[id] = 0

\* C16: a run with simulations = N >= 1 on a root with a legal action returns a policy
\* whose visit counts are those of the root's children and sum to N (the policy sums to
\* 1), and that is zero on every id that is no id of a legal action of the root.
C16_PolicyOverLegalIds ==
    searchPc = "returned" /\ simulations >= 1 /\ Len(legal_actions(state)) > 0 =>
        /\ RootVisits = simulations
        /\ VisitsWithin(policy, _legal_ids(state), simulations)

C16_Witness ==
    /\ searchPc = "returned"
    /\ state = Overflowed
    /\ training
    /\ simulations = 2
    /\ policy.total = 2
    /\ \E id \in DOMAIN policy.visits : policy.visits[id] = 2

-----------------------------------------------------------------------------
(* MCTS.run with the uniform evaluator on roots where a direct attack wins  *)
(* at once.                                                                 *)

MaxUniformSimulations == 12

UniformRoots == {LethalRoot, LethalTrace}

InitUniformSearch ==
    /\ InitGameAt(UniformRoots)
    /\ tree = << >>
    /\ simulations \in 1 .. MaxUniformSimulations
    /\ simsDone = 0
    /\ training = FALSE
    /\ policy = None
    /\ searchPc = "idle"
    /\ TrainerIdle

UniformRunBegin == RunBeginWith({UniformEvaluation})

UniformSimulate == SimulateWith({UniformEvaluation})

NextUniformSearch == UniformRunBegin \/ UniformSimulate \/ RunReturn

SpecUniformSearch == InitUniformSearch /\ [][NextUniformSearch]_vars

RootChildren == IF <<>> \in DOMAIN tree THEN Range(tree[<<>>].children) ELSE {}

\* the root children that have been entered and are a terminal win for the root's player
WinningChildren ==
    { id \in RootChildren :
        /\ tree[<<id>>].visit_count >= 1
        /\ is_terminal(tree[<<id>>].state)
        /\ tree[<<id>>].state.winner = tree[<<>>].to_play }

\* C17: under the uniform evaluator, a root child that is an immediate terminal win for
\* the root's player has mean value +1 after every visit to it, and from its first visit
\* on it has at least the visits of every other root child, hence at least its share
\* simsDone / |children| of the simulations done so far.
C17_WinningChildDominates ==
    \A w \in WinningChildren :
        /\ tree[<<w>>].value_sum = 100 * tree[<<w>>].visit_count
        /\ q(tree[<<w>>]) = 100000000
        /\ \A x \in RootChildren : tree[<<x>>].visit_count <= tree[<<w>>].visit_count
        /\ tree[<<w>>].visit_count * Cardinality(RootChildren) >= simsDone

C17_Witness ==
    /\ searchPc = "returned"
    /\ state = LethalTrace
    /\ simulations = MaxUniformSimulations
    /\ \E w \in WinningChildren :
          /\ tree[<<w>>].visit_count = 2
          /\ \E x \in RootChildren : tree[<<x>>].visit_count = 1

-----------------------------------------------------------------------------
(* train_alphazero.py, main: the replay buffer.  A sample is named by the   *)
(* episode that produced it and its move in that episode.                   *)

MaxReplaySize == 4

MaxEpisodes == 4

MaxEpisodeLen == 3

\* a variant that refuses a sample when the buffer is full
DequeAppend_DropNewest(dq, maxlen, x) ==
    IF Len(dq) >= maxlen THEN dq ELSE Append(dq, x)

\* collections.deque.append with maxlen: a full deque drops its leftmost item
DequeAppend(dq, maxlen, x) ==
    IF maxlen = 0 THEN dq
    ELSE IF Len(dq) = maxlen THEN Append(Tail(dq), x)
    ELSE Append(dq, x)

\* collections.deque.extend: append the items from left to right
RECURSIVE DequeExtend(_, _, _)
DequeExtend(dq, maxlen, xs) ==
    IF xs = << >> THEN dq
    ELSE DequeExtend(DequeAppend(dq, maxlen, Head(xs)), maxlen, Tail(xs))

\* the trajectory of the k-th episode, n samples long
Trajectory(k, n) == [j \in 1 .. n |-> [episode |-> k, move |-> j - 1]]

InitReplay ==
    /\ InitGameAt({initial_state})
    /\ SearchIdle
    /\ replay = << >>
    /\ replaySize \in 0 .. MaxReplaySize
    /\ appended = << >>
    /\ gating = None
    /\ episode = None

\* lines 612-615: one pass of the episode loop of main
ExtendReplay ==
    /\ Len(appended) < MaxEpisodes
    /\ \E n \in 0 .. MaxEpisodeLen :
          /\ replay' = DequeExtend(replay, replaySize, Trajectory(Len(appended) + 1, n))
          /\ appended' = Append(appended, Trajectory(Len(appended) + 1, n))
    /\ UNCHANGED <<replaySize, gating, episode, searchVars>>
    /\ UNCHANGED <<state, action, before, input, origin, originNow, raised, turns>>

NextReplay == ExtendReplay

SpecReplay == InitReplay /\ [][NextReplay]_vars

\* the last k items of the sequence
LastOf(xs, k) == SubSeq(xs, Len(xs) - k + 1, Len(xs))

\* C18: after any sequence of episode appends the replay buffer holds at most replaySize
\* samples: the most recently appended ones, in the order they were appended.
C18_ReplayHoldsNewest ==
    /\ Len(replay) <= replaySize
    /\ replay = LastOf(Flatten(appended), Min(Len(Flatten(appended)), replaySize))

C18_Witness ==
    /\ Len(appended) >= 2
    /\ replaySize >= 2
    /\ Len(Flatten(appended)) > replaySize
    /\ Len(replay) = replaySize
    /\ replay[1].episode # replay[Len(replay)].episode

-----------------------------------------------------------------------------
(* train_alphazero.py: evaluate_candidate and the gating step of main.  The *)
(* approximators are named by their weights: "candidate" (net after         *)
(* training) and "best" (best_net); a match is its return value, 1 or 2.    *)

MaxGames == 4

\* --gating-threshold, in hundredths
GatingThresholds == {0, 50, 55, 100}

\* a variant that counts the wins of player 1
CandidateWon_FirstSeat(g, winner) == winner = 1

\* lines 523-529: int(winner == 1) in even-indexed games, int(winner == 2) in odd ones
CandidateWon(g, winner) == IF g % 2 = 0 THEN winner = 1 ELSE winner = 2

\* lines 523-528: the approximators passed to play_match as net_a and net_b
Seats(g, candidate, best) ==
    IF g % 2 = 0 THEN [net_a |-> candidate, net_b |-> best]
    ELSE [net_a |-> best, net_b |-> candidate]

InitGating ==
    /\ InitGameAt({initial_state})
    /\ SearchIdle
    /\ replaySize = 1
    /\ \E n \in 0 .. 1 : replay = Trajectory(1, n) /\ appended = << Trajectory(1, n) >>
    /\ \E games \in 0 .. MaxGames, threshold \in GatingThresholds :
          gating = [pc |-> "trained", games |-> games, gating_threshold |-> threshold,
                    g |-> 0, wins |-> 0, matches |-> << >>,
                    net |-> "candidate", best_net |-> "best", promoted |-> FALSE]
    /\ episode = None

TrainerStep == UNCHANGED <<state, action, before, input, origin, originNow, raised, turns, searchVars>>

\* lines 617-618: an iteration with an empty replay buffer ends before the evaluation
SkipIteration ==
    /\ gating # None
    /\ gating.pc = "trained"
    /\ Len(replay) = 0
    /\ gating' = [gating EXCEPT !.pc = "skipped"]
    /\ UNCHANGED <<replay, replaySize, appended, episode>>
    /\ TrainerStep

\* lines 521-529: one pass of the loop of evaluate_candidate
PlayGame ==
    /\ gating # None
    /\ gating.pc = "trained"
    /\ Len(replay) > 0
    /\ gating.g < gating.games
    /\ \E winner \in 1 .. 2 :
          gating' = [gating EXCEPT
                        !.g = @ + 1,
                        !.wins = @ + (IF CandidateWon(gating.g, winner) THEN 1 ELSE 0),
                        !.matches = Append(@, [seats |-> Seats(gating.g, gating.net, gating.best_net),
                                               winner |-> winner])]
    /\ UNCHANGED <<replay, replaySize, appended, episode>>
    /\ TrainerStep

\* line 530 and lines 636-639: win_rate = wins / max(1, games), compared with the threshold
Gate ==
    /\ gating # None
    /\ gating.pc = "trained"
    /\ Len(replay) > 0
    /\ gating.g = gating.games
    /\ LET promoted == 100 * gating.wins >= gating.gating_threshold * Max(1, gating.games)
       IN  gating' = [gating EXCEPT !.pc = "gated",
                                    !.promoted = promoted,
                                    !.best_net = IF promoted THEN gating.net ELSE @]
    /\ UNCHANGED <<replay, replaySize, appended, episode>>
    /\ TrainerStep

NextGating == SkipIteration \/ PlayGame \/ Gate

SpecGating == InitGating /\ [][NextGating]_vars

\* the approximator that moved as the player
SeatOf(match, player) == IF player = 1 THEN match.seats.net_a ELSE match.seats.net_b

CandidateWins ==
    Cardinality({ i \in 1 .. Len(gating.matches) :
                    SeatOf(gating.matches[i], gating.matches[i].winner) = "candidate" })

\* C19: the candidate is player 1 in the even-indexed matches and player 2 in the odd
\* ones, wins counts the matches whose winner is the candidate's seat, and after the
\* gating step of an evaluation of games >= 1 matches the best approximator is the
\* candidate if and only if wins/games >= gatingThreshold, and is unchanged otherwise.
C19_GatingPromotesOnWinRate ==
    gating # None =>
        /\ \A i \in 1 .. Len(gating.matches) :
              /\ SeatOf(gating.matches[i], IF (i - 1) % 2 = 0 THEN 1 ELSE 2) = "candidate"
              /\ SeatOf(gating.matches[i], IF (i - 1) % 2 = 0 THEN 2 ELSE 1) = "best"
        /\ gating.wins = CandidateWins
        /\ gating.pc = "gated" /\ gating.games >= 1 =>
              /\ Len(gating.matches) = gating.games
              /\ gating.best_net = "candidate" <=>
                    100 * gating.wins >= gating.gating_threshold * gating.games
              /\ gating.best_net \in {"candidate", "best"}
              /\ gating.promoted <=> gating.best_net = "candidate"
        /\ gating.pc # "gated" => gating.best_net = "best"

C19_Witness ==
    /\ gating # None
    /\ gating.pc = "gated"
    /\ gating.games = 4
    /\ gating.gating_threshold = 50
    /\ gating.wins = 2
    /\ gating.matches[2].winner = 2
    /\ gating.matches[3].winner = 1
    /\ gating.best_net = "candidate"

-----------------------------------------------------------------------------
(* train_alphazero.py: the move loops of self_play_episode and play_match.  *)
(* state is the game state of the loop; a search is what it can return: by  *)
(* MCTS.run a policy that is positive on ids of _legal_ids(state) only, and *)
(* zero everywhere when simulations = 0.                                    *)

MaxGameMoves == 2

\* player 1 is behind on lp
Behind == [SummonTrace EXCEPT !.players[1].lp = 7000]

\* initial_state, where the loops start, and later positions: two with a short hand,
\* one where the player to move has a winning attack
EpisodeStarts == {initial_state, SummonTrace, Behind, LethalRoot}

\* Sample.value before the episode ends (None)
NoValue == 0

\* line 415: the sample of a move; the features and the stored policy are left out
Sample(player) == [player |-> player, value |-> NoValue]

\* choose_action, lines 381-395: p + 1e-12 is positive on every id, and so is the
\* uniform p of a zero policy, so np.random.choice can return any id
SampledIds(s, sims) == 0 .. Len(ActionSpace) - 1

\* play_match, line 499: the argmax of the policy, id 0 for a zero policy
GreedyIds(s, sims) ==
    IF sims = 0 \/ _legal_ids(s) = << >> THEN {0} ELSE Range(_legal_ids(s))

InitEpisode ==
    /\ InitGameAt(EpisodeStarts)
    /\ tree = << >>
    /\ simulations \in 0 .. 1
    /\ simsDone = 0
    /\ training = FALSE
    /\ policy = None
    /\ searchPc = "idle"
    /\ replay = << >>
    /\ replaySize = 0
    /\ appended = << >>
    /\ gating = None
    /\ \E kind \in {"self_play_episode", "play_match"}, max_moves \in 0 .. MaxGameMoves :
          episode = [kind |-> kind, pc |-> "loop", move_num |-> 0, max_moves |-> max_moves,
                     trajectory |-> << >>, winner |-> NoWinner]

\* one pass of the loop with the action id chosen: the state advances, or next_state
\* raises and the exception leaves the function
Advance(id, out) ==
    /\ action' = ActionSpace[id + 1]
    /\ before' = state
    /\ input' = out.arg
    /\ raised' = out.raised
    /\ state' = out.ret
    /\ episode' = IF out.raised THEN [episode EXCEPT !.pc = "raised"]
                  ELSE [episode EXCEPT
                           !.move_num = @ + 1,
                           !.trajectory = IF episode.kind = "self_play_episode"
                                          THEN Append(@, Sample(state.currentPlayer)) ELSE @]
    /\ UNCHANGED <<origin, originNow, turns, searchVars, replay, replaySize, appended, gating>>

Looping(kind) ==
    /\ episode # None
    /\ episode.kind = kind
    /\ episode.pc = "loop"

\* self_play_episode, lines 410-419
SelfPlayMove ==
    /\ Looping("self_play_episode")
    /\ ~is_terminal(state) /\ episode.move_num < episode.max_moves
    /\ \E id \in SampledIds(state, simulations) :
          \E out \in {next_state(state, ActionSpace[id + 1])} : Advance(id, out)

\* play_match, lines 485-502
MatchMove ==
    /\ Looping("play_match")
    /\ ~is_terminal(state) /\ episode.move_num < episode.max_moves
    /\ \E id \in GreedyIds(state, simulations) :
          \E out \in {next_state(state, ActionSpace[id + 1])} : Advance(id, out)

\* a variant whose tiebreak gives equal lp to player 2
WinnerOf_TieToTwo(s) ==
    IF is_terminal(s) THEN s.winner
    ELSE IF s.players[1].lp > s.players[2].lp THEN 1 ELSE 2

\* lines 421-426 and 504-508: the winner of a finished game, else the lp tiebreak
WinnerOf(s) ==
    IF is_terminal(s) THEN s.winner
    ELSE IF s.players[1].lp >= s.players[2].lp THEN 1 ELSE 2

\* lines 428-429: every sample takes +1 if its player is the winner, else -1
Labelled(trajectory, winner) ==
    [i \in 1 .. Len(trajectory) |->
        [trajectory[i] EXCEPT !.value = IF trajectory[i].player = winner THEN 1 ELSE -1]]

EpisodeReturn ==
    /\ episode # None
    /\ episode.pc = "loop"
    /\ is_terminal(state) \/ episode.move_num >= episode.max_moves
    /\ episode' = [episode EXCEPT !.pc = "returned",
                                  !.winner = WinnerOf(state),
                                  !.trajectory = Labelled(@, WinnerOf(state))]
    /\ UNCHANGED <<state, action, before, input, origin, originNow, raised, turns>>
    /\ UNCHANGED <<searchVars, replay, replaySize, appended, gating>>

NextEpisode == SelfPlayMove \/ MatchMove \/ EpisodeReturn

SpecEpisode == InitEpisode /\ [][NextEpisode]_vars

\* C20: self_play_episode and play_match always terminate with a winner: no pass of
\* the loop leaves the function through an exception, at most max_moves actions are
\* applied to the game state, and the function returns winner 1 or 2, whether or not
\* the game reached a terminal state.
C20_EpisodeReturnsWinner ==
    episode # None =>
        /\ episode.pc \in {"loop", "returned"}
        /\ episode.move_num <= episode.max_moves
        /\ episode.pc = "returned" => episode.winner \in 1 .. 2

\* C21: a self-play episode that returns has as winner the engine's winner if the final
\* state is terminal, else player 1 if lp1 >= lp2 and player 2 if lp1 < lp2; every
\* sample has value +1 if its player is that winner and -1 otherwise, and there is one
\* sample per action applied.
C21_EpisodeWinnerAndLabels ==
    episode # None /\ episode.pc = "returned" =>
        /\ is_terminal(state) => episode.winner = state.winner
        /\ ~is_terminal(state) /\ state.players[1].lp >= state.players[2].lp => episode.winner = 1
        /\ ~is_terminal(state) /\ state.players[1].lp < state.players[2].lp => episode.winner = 2
        /\ episode.kind = "self_play_episode" => Len(episode.trajectory) = episode.move_num
        /\ \A i \in 1 .. Len(episode.trajectory) :
              /\ episode.trajectory[i].player = episode.winner => episode.trajectory[i].value = 1
              /\ episode.trajectory[i].player # episode.winner => episode.trajectory[i].value = -1

\* an episode cut off by the move bound with player 1 behind, a sample of each label
C21_Witness ==
    /\ episode # None /\ episode.kind = "self_play_episode" /\ episode.pc = "returned"
    /\ ~is_terminal(state)
    /\ episode.winner = 2
    /\ episode.move_num = 2
    /\ episode.trajectory[1].value = -1
    /\ episode.trajectory[2].value = 1

-----------------------------------------------------------------------------
(* Claims on the game rules, checked under Spec *)

\* the action of the last call was legal in the active state it was applied to
LegalCall == Acted /\ before.status = "active" /\ action \in Range(legal_actions(before))

\* C22: in an active state whose current player has pendingDiscard > 0, legal_actions is
\* exactly discard_card for hand_index 0 .. |hand| - 1; each such discard removes that
\* one card from the hand and lowers pendingDiscard by 1, so an action of another kind
\* is legal only when pendingDiscard is 0.
C22_OnlyDiscardsWhilePending ==
    /\ state.status = "active" /\ Current(state).pendingDiscard > 0 =>
          legal_actions(state) =
              [i \in 1 .. Len(Current(state).hand) |-> [type |-> "discard_card", hand_index |-> i - 1]]
    /\ \A a \in Legal : a.type # "discard_card" => Current(state).pendingDiscard = 0
    /\ LegalCall /\ action.type = "discard_card" =>
          /\ state.currentPlayer = before.currentPlayer
          /\ Len(Current(state).hand) = Len(Current(before).hand) - 1
          /\ \A i \in 1 .. Len(Current(state).hand) :
                Current(state).hand[i] =
                    Current(before).hand[IF i <= action.hand_index THEN i ELSE i + 1]
          /\ Current(state).pendingDiscard = Current(before).pendingDiscard - 1
          /\ Opponent(state) = Opponent(before)

\* the first of two pending discards: only discards are legal after it, too
C22_Witness ==
    /\ LegalCall
    /\ action.type = "discard_card"
    /\ action.hand_index = 1
    /\ Current(before).pendingDiscard = 2
    /\ Current(state).pendingDiscard = 1
    /\ \A a \in Legal : a.type = "discard_card"

\* the player the spell of action a aims at, seen from state s
TargetPlayer(s, a) == IF a.target_owner = "me" THEN s.currentPlayer ELSE Other(s.currentPlayer)

\* the slot the spell of action a aims at, in state s
TargetOf(s, a) ==
    IF a.target_type = "construct"
    THEN s.players[TargetPlayer(before, a)].constructs[a.target_slot + 1]
    ELSE s.players[TargetPlayer(before, a)].monsters[a.target_slot + 1]

Cast(cid) ==
    /\ LegalCall
    /\ action.type = "play_spell"
    /\ SpellCard(before, action) = cid

\* C23: missing_data played on a construct stack removes exactly one card from that
\* stack; the slot becomes empty only if the stack had exactly one card.
C23_MissingDataRemovesOneCard ==
    Cast("missing_data") /\ action.target_type = "construct" /\ TargetOf(before, action) # None =>
        IF Len(TargetOf(before, action).cards) = 1
        THEN TargetOf(state, action) = None
        ELSE /\ TargetOf(state, action) # None
             /\ TargetOf(state, action).constructId = TargetOf(before, action).constructId
             /\ Len(TargetOf(state, action).cards) = Len(TargetOf(before, action).cards) - 1

\* the spell table: the target type and owner a spell asks for
SpellFits(cid, target_type, target_owner) ==
    \/ cid \in {"sample_size", "practice_effect"} /\ target_type = "monster"
    \/ cid \in {"job_relevance", "imputation", "p_hacking", "correction", "bootstrapping"}
          /\ target_type = "monster" /\ target_owner = "me"
    \/ cid = "missing_data"
    \/ cid \in {"range_restrict", "item_leakage", "criterion_contam"}
          /\ target_type = "monster" /\ target_owner = "opp"
    \/ cid = "item_analysis" /\ target_type = "construct" /\ target_owner = "me"
    \/ cid = "construct_drift" /\ target_type = "construct" /\ target_owner = "opp"

\* the play_spell actions of the action space that name a spell card of the current hand
SpellCalls(s) ==
    { a \in Range(ActionSpace) :
        /\ a.type = "play_spell"
        /\ a.hand_index < Len(Current(s).hand)
        /\ ~IsItem(SpellCard(s, a)) }

\* s without the card at hand_index h of the current player's hand
Consumed(s, h) == [s EXCEPT !.players[s.currentPlayer].hand = Pop(@, h)]

SlotAimedAt(s, a) ==
    IF a.target_type = "construct"
    THEN s.players[TargetPlayer(s, a)].constructs[a.target_slot + 1]
    ELSE s.players[TargetPlayer(s, a)].monsters[a.target_slot + 1]

\* what next_state returns for play_spell a in s
Played(s, a, out) ==
    /\ ~out.raised
    /\ out.ret.players[s.currentPlayer].hand = Pop(Current(s).hand, a.hand_index)
    /\ (~SpellFits(SpellCard(s, a), a.target_type, a.target_owner) \/ SlotAimedAt(s, a) = None)
          => out.ret = Consumed(s, a.hand_index)

\* C24: every play_spell removes exactly the card at hand_index from the current player's
\* hand; when the spell does not fit the target type or owner of the spell table, or the
\* target slot is empty, nothing else in the state changes.
C24_MismatchedSpellOnlyConsumed ==
    state.status = "active" =>
        \A a \in SpellCalls(state) : Played(state, a, next_state(state, a))

\* correction cast on the opponent's monster: the card is gone, the monster untouched
C24_Witness ==
    /\ Cast("correction")
    /\ action.target_owner = "opp"
    /\ action.target_type = "monster"
    /\ state = Consumed(before, action.hand_index)
    /\ \E a \in SpellCalls(state) : SlotAimedAt(state, a) = None

Fight == LegalCall /\ action.type = "attack" /\ action.target_type = "monster"

Attacker(s) == s.players[before.currentPlayer].monsters[action.attacker_slot + 1]

Defender(s) == s.players[Other(before.currentPlayer)].monsters[action.target_slot + 1]

LpOf(s, p) == s.players[p].lp

\* C25: an attack on an opposing monster counts in the attacker's attacksMade and is
\* resolved by atk: the monster with strictly lower atk is destroyed and its owner's lp
\* falls by the difference (floored at 0) while the other lp is unchanged; on equal atk
\* both monsters are destroyed and neither lp changes.
C25_CombatByAtk ==
    Fight =>
        LET me == before.currentPlayer
            opp == Other(before.currentPlayer)
            a == Attacker(before)
            d == Defender(before)
        IN  /\ Attacker(state) # None => Attacker(state).attacksMade = a.attacksMade + 1
            /\ a.atk > d.atk =>
                  /\ Defender(state) = None
                  /\ LpOf(state, opp) = Max(0, LpOf(before, opp) - (a.atk - d.atk))
                  /\ LpOf(state, me) = LpOf(before, me)
                  /\ Attacker(state) = None => a.hasPHacking
            /\ a.atk < d.atk =>
                  /\ Attacker(state) = None
                  /\ Defender(state) = d
                  /\ LpOf(state, me) = Max(0, LpOf(before, me) - (d.atk - a.atk))
                  /\ LpOf(state, opp) = LpOf(before, opp)
            /\ a.atk = d.atk =>
                  /\ Attacker(state) = None
                  /\ Defender(state) = None
                  /\ LpOf(state, me) = LpOf(before, me)
                  /\ LpOf(state, opp) = LpOf(before, opp)

C25_Witness ==
    /\ Fight
    /\ Attacker(before).atk < Defender(before).atk
    /\ Attacker(state) = None
    /\ LpOf(state, before.currentPlayer) < LpOf(before, before.currentPlayer)

Attacks(s) == {a \in Range(legal_actions(s)) : a.type = "attack"}

Attacked == LegalCall /\ action.type = "attack"

\* the monster in a slot of the player who moved is the one that was there before the call
\* (a summon may replace a monster and a meta merge builds a new one)
SameMonster(i) ==
    /\ action.type \notin {"end_turn", "meta", "summon"}
    /\ before.players[before.currentPlayer].monsters[i] # None
    /\ state.players[before.currentPlayer].monsters[i] # None

\* C26: every attack offered by legal_actions names a monster of the player to move that
\* is not summoningSick, has attacksMade < maxAttacks and has job relevance if it requires
\* it; the lp target is offered only when the opponent has no monsters and a monster
\* target only at an occupied opponent slot.  Hence the slot that has just attacked is
\* offered no further attack, and no action but end_turn lowers a monster's attacksMade,
\* raises its maxAttacks or ends its summoning sickness: a monster attacks at most once
\* between two end_turn actions.
C26_AttackOnlyWhenAble ==
    /\ (state.status = "active" /\ ~raised) =>
          \A a \in Attacks(state) :
              LET m == Current(state).monsters[a.attacker_slot + 1]
                  foes == Opponent(state).monsters
              IN  /\ m # None
                  /\ ~m.summoningSick
                  /\ m.attacksMade < m.maxAttacks
                  /\ m.requiresJobRelevance => m.hasJobRelevance
                  /\ a.target_type \in {"lp", "monster"}
                  /\ a.target_type = "lp" => \A t \in 1 .. 3 : foes[t] = None
                  /\ a.target_type = "monster" => foes[a.target_slot + 1] # None
    /\ (Attacked /\ state.status = "active") =>
          \A a \in Attacks(state) : a.attacker_slot # action.attacker_slot
    /\ LegalCall =>
          \A i \in 1 .. 3 :
              SameMonster(i) =>
                  LET was == before.players[before.currentPlayer].monsters[i]
                      now == state.players[before.currentPlayer].monsters[i]
                  IN  /\ now.attacksMade >= was.attacksMade
                      /\ now.maxAttacks <= was.maxAttacks
                      /\ now.summoningSick = was.summoningSick

\* a monster has attacked and survived, the game goes on, and its owner is free to act
C26_Witness ==
    /\ Attacked
    /\ state.status = "active"
    /\ Attacker(state) # None
    /\ Attacker(state).attacksMade = 1
    /\ Current(state).pendingDiscard = 0
    /\ canMonsterAttack_Unlimited(Attacker(state))

WellFormedStack(stack) ==
    /\ Len(stack.cards) \in 1 .. 3
    /\ \A i \in 1 .. Len(stack.cards) : stack.cards[i] = stack.constructId
    /\ stack.constructId \in DOMAIN CONSTRUCTS
    /\ stack.type = CONSTRUCTS[stack.constructId].type

\* C27: in every state reached by legal actions every occupied construct slot holds a
\* stack of 1 to 3 cards, all of the stack's constructId, and the stack's category is
\* that construct's category.
C27_StacksWellFormed ==
    ~raised =>
        \A p \in 1 .. 2 : \A i \in 1 .. 3 :
            state.players[p].constructs[i] # None =>
                WellFormedStack(state.players[p].constructs[i])

\* a legal call has just changed the height of a stack that stays on the board
C27_Witness ==
    /\ LegalCall
    /\ action.type \in {"place_card", "play_spell"}
    /\ \E p \in 1 .. 2 : \E i \in 1 .. 3 :
          /\ before.players[p].constructs[i] # None
          /\ state.players[p].constructs[i] # None
          /\ Len(state.players[p].constructs[i].cards) = 3
          /\ Len(before.players[p].constructs[i].cards) = 2

\* the summon names an empty or non-predictor pred slot, an empty or non-outcome out
\* slot, or the same slot twice
SummonRejected(s, a) ==
    LET pred == Current(s).constructs[a.pred_slot + 1]
        out == Current(s).constructs[a.out_slot + 1]
    IN  \/ pred = None
        \/ out = None
        \/ a.pred_slot = a.out_slot
        \/ pred.type # "predictor"
        \/ out.type # "outcome"

SummonPairs(s) ==
    {<<a.pred_slot, a.out_slot>> : a \in {b \in Range(legal_actions(s)) : b.type = "summon"}}

\* C28: legal_actions offers a summon for every (pred_slot, out_slot) pair whatever the
\* slots hold, and a summon whose pred slot is empty or not a predictor stack, whose out
\* slot is empty or not an outcome stack, or whose slots are equal returns the state as it
\* was: no construct or monster slot changes and summoned stays false.
C28_RejectedSummonIsNoOp ==
    /\ (state.status = "active" /\ ~raised /\ Current(state).pendingDiscard = 0
            /\ ~Current(state).summoned) =>
          SummonPairs(state) = (0 .. 2) \X (0 .. 2)
    /\ (LegalCall /\ action.type = "summon" /\ SummonRejected(before, action)) =>
          /\ state = before
          /\ ~state.players[before.currentPlayer].summoned

\* a summon naming two occupied, different slots of the wrong categories was applied
C28_Witness ==
    /\ LegalCall
    /\ action.type = "summon"
    /\ action.pred_slot # action.out_slot
    /\ Current(before).constructs[action.pred_slot + 1] # None
    /\ Current(before).constructs[action.out_slot + 1] # None
    /\ SummonRejected(before, action)
    /\ state = before

\* the nodes of the path from the root to node P
PathNodes(P) == {SubSeq(P, 1, k) : k \in 0 .. Len(P)}

\* P is the path the simulation selected in tree t: every step is the child chosen by
\* _select_child, and it stops at the first node without children or with a terminal
\* state (t2 is the tree afterwards, which holds the states the descent filled in)
SelectedPath(t, t2, P) ==
    /\ \A k \in 1 .. Len(P) :
          /\ t[SubSeq(P, 1, k - 1)].children # <<>>
          /\ k > 1 => ~is_terminal(t2[SubSeq(P, 1, k - 1)].state)
          /\ P[k] = _select_child(t, SubSeq(P, 1, k - 1))
    /\ t[P].children = <<>> \/ (Len(P) > 0 /\ is_terminal(t2[P].state))

\* the value of the leaf: its terminal value for the player to move in it, or the value
\* the evaluator gave
LeafValue(t2, P, e) ==
    IF is_terminal(t2[P].state)
    THEN 100 * terminal_value(t2[P].state, t2[P].to_play)
    ELSE e.value

\* every node of the path to P has one more visit and the value with the sign of its
\* distance from P added; every other node has the counts it had (0 and 0 if it is new)
BackedUp(t, t2, P, v) ==
    /\ DOMAIN t \subseteq DOMAIN t2
    /\ \A n \in DOMAIN t2 :
          LET visits == IF n \in DOMAIN t THEN t[n].visit_count ELSE 0
              sum == IF n \in DOMAIN t THEN t[n].value_sum ELSE 0
          IN  IF n \in PathNodes(P)
              THEN /\ t2[n].visit_count = visits + 1
                   /\ t2[n].value_sum =
                          sum + (IF (Len(P) - Len(n)) % 2 = 0 THEN v ELSE -v)
              ELSE /\ t2[n].visit_count = visits
                   /\ t2[n].value_sum = sum

\* C29: every simulation adds exactly 1 to visit_count on each node of the selected
\* root-to-leaf path and on no other node, and adds to their value sums v, -v, v, ...
\* from the leaf up to the root, v being the leaf's terminal value or the evaluator's
\* value.
C29_BackupAlongPath ==
    [][(searchPc = "searching" /\ simsDone' = simsDone + 1) =>
          \E P \in DOMAIN tree :
              /\ SelectedPath(tree, tree', P)
              /\ \E e \in Evaluations :
                    /\ BackedUp(tree, tree', P, LeafValue(tree', P, e))
                    /\ tree' = Simulation(tree, e)]_vars

\* two simulations went down the same child: the first credited it v and the root -v, the
\* second credited its child w, it -w and the root w, with v and w not 0
C29_Witness ==
    /\ searchPc = "searching"
    /\ simsDone = 2
    /\ \E P \in DOMAIN tree :
          /\ Len(P) = 2
          /\ tree[P].visit_count = 1
          /\ tree[P].value_sum # 0
          /\ tree[SubSeq(P, 1, 1)].visit_count = 2
          /\ tree[<<>>].visit_count = 2
          /\ tree[<<>>].value_sum = -tree[SubSeq(P, 1, 1)].value_sum
          /\ tree[SubSeq(P, 1, 1)].value_sum + tree[P].value_sum # 0

HandLimitKept(s) ==
    /\ Current(s).pendingDiscard = Max(0, Len(Current(s).hand) - MAX_HAND_SIZE)
    /\ Opponent(s).pendingDiscard = 0
    /\ Len(Opponent(s).hand) <= MAX_HAND_SIZE

\* C30: in every state reached by legal actions the pendingDiscard of the player to move
\* is max(0, |hand| - 12), and the other player has pendingDiscard 0 and at most 12 cards
\* in hand.
C30_PendingDiscardIsOverflow ==
    ~raised => HandLimitKept(state)

\* from initial_state: the player who starts a turn holds a card too many and owes its
\* discard
C30_Witness ==
    /\ origin = initial_state
    /\ Acted
    /\ action.type = "end_turn"
    /\ Len(Current(state).hand) = MAX_HAND_SIZE + 1
    /\ Current(state).pendingDiscard = 1
    /\ HandLimitKept(state)

Tokens(s) == <<s.players[1].experienceTokens, s.players[2].experienceTokens>>

\* C31: in every state reached from initial_state by any sequence of actions both
\* players' experienceTokens are 0, so that legal_actions never offers experience_draw.
C31_TokensStayZero ==
    (origin = initial_state /\ ~raised) =>
        /\ Tokens(state) = <<0, 0>>
        /\ state.status = "active" =>
              \A a \in Range(legal_actions(state)) : a.type # "experience_draw"

\* C32: in every state reached by legal actions each player's lp is between 0 and 8000
\* and not above what it was in the state before; at most one player is at 0 lp; the
\* status is finished exactly when a player is at 0 lp, and then the winner is the player
\* with lp above 0; the winner is none exactly when the status is active.
C32_LpAndGameOver ==
    ~raised =>
        /\ \A p \in 1 .. 2 : LpOf(state, p) \in 0 .. StartingLp
        /\ \A p \in 1 .. 2 : LpOf(state, p) <= LpOf(before, p)
        /\ ~(LpOf(state, 1) = 0 /\ LpOf(state, 2) = 0)
        /\ state.status \in {"active", "finished"}
        /\ state.status = "finished" <=> (\E p \in 1 .. 2 : LpOf(state, p) = 0)
        /\ state.status = "finished" =>
              (state.winner \in 1 .. 2 /\ LpOf(state, state.winner) > 0)
        /\ state.winner = NoWinner <=> state.status = "active"

\* an attack has just brought a player to 0 lp and ended the game for the other
C32_Witness ==
    /\ LegalCall
    /\ action.type = "attack"
    /\ state.status = "finished"
    /\ \E p \in 1 .. 2 :
          /\ LpOf(before, p) > 0
          /\ LpOf(state, p) = 0
          /\ state.winner = Other(p)
          /\ LpOf(state, Other(p)) > 0

\* what the simulation added to the value sum of node n
Credited(t, t2, n) == t2[n].value_sum - t[n].value_sum

\* C33: for every simulation and every node X other than the root on its path, the
\* amount added to X.value_sum is the leaf value seen by the player to move at X's
\* parent: +v when that player is the leaf's to_play and -v otherwise.
C33_BackupFromParentView ==
    [][(searchPc = "searching" /\ simsDone' = simsDone + 1) =>
          \E P \in DOMAIN tree :
              /\ SelectedPath(tree, tree', P)
              /\ \E e \in Evaluations :
                    /\ tree' = Simulation(tree, e)
                    /\ \A k \in 1 .. Len(P) :
                          Credited(tree, tree', SubSeq(P, 1, k)) =
                              IF tree'[SubSeq(P, 1, k - 1)].to_play = tree'[P].to_play
                              THEN LeafValue(tree', P, e)
                              ELSE -LeafValue(tree', P, e)]_vars

\* a pass of a move loop has handed an action to next_state
Moved == episode # None /\ action.type # "none"

\* C34: with simulations >= 1, every action that self_play_episode or play_match hands
\* to next_state is one of the legal actions of the state it is applied to.
C34_AppliedActionsAreLegal ==
    (Moved /\ simulations >= 1) => action \in Range(legal_actions(before))

=============================================================================
